---- MODULE Spec2Model ----
(***************************************************************************)
(* FFmpegRecorder (electron/ffmpeg-recorder.ts): the recording-session     *)
(* controller.  The public operations start/pause/resume/stop are async    *)
(* functions; every `await` of a real I/O completion is a point where      *)
(* other IPC calls and subprocess events may run, so each operation is     *)
(* split into one action per such point.  Continuations that run as        *)
(* microtasks (promise already resolved) are taken before any other        *)
(* action (see Ready).                                                     *)
(***************************************************************************)
EXTENDS Integers, Sequences, FiniteSets, TLC

\* ---- bounds -------------------------------------------------------------
MaxProcs == 3       \* recording subprocesses spawned in one behaviour
MaxSessions == 2    \* start() calls that get as far as fixing an output path
MaxSlots == 2       \* public calls that may be in progress at the same time
MaxLists == 2       \* device listings spawned in one behaviour
MaxDetects == 2     \* detectEncoder() calls in one behaviour

Slots == 1..MaxSlots
ProcIds == 1..MaxProcs
ListIds == 1..MaxLists
DetectIds == 1..MaxDetects

VARIABLES
  state,               \* this.state
  process,             \* this.process: 0 is null, otherwise a subprocess id
  segments,            \* this.segments
  segmentIndex,        \* this.segmentIndex
  outputFile,          \* this.outputFile: NoPath is '', else Path("out", timestamp, 0)
  backgroundTempFile,  \* this.backgroundTempFile (NoPath is null)
  foregroundTempFile,  \* this.foregroundTempFile
  stderrLog,           \* this.stderrLog: the set of markers the text contains
  cachedEncoder,       \* this.cachedEncoder ("none" is null)
  procs,               \* the recording subprocesses and their handler closures
  files,               \* the file system: path -> content
  clock,               \* source of the timestamp in the output file name
  calls,               \* the public calls in progress, one per slot
  ret,                 \* the result delivered to a caller by the last step
  onErrorCalls,        \* subprocess ids for which the error callback ran
  hist,                \* history: operations of this session that returned success
  cachedDshowDevices,  \* this.cachedDshowDevices (cached = FALSE is null)
  lists,               \* the listing subprocesses spawned by listDshowDevices()
  detects,             \* the detectEncoder() calls
  trials,              \* history: the trial encodes spawned, <<call, encoder>>
  browserLabel,        \* matchDshowDevice: the label looked for
  dshowDevices,        \* matchDshowDevice: the catalog searched
  matchResult,         \* matchDshowDevice: what it returned
  build,               \* buildArgs: what it was called with
  args,                \* buildArgs: the argv it returned
  post                 \* the postProcessCamera() call

\* the device catalog
devVars == <<cachedDshowDevices, lists>>
\* the encoder probe
encVars == <<detects, trials>>
\* one application of matchDshowDevice
matchVars == <<browserLabel, dshowDevices, matchResult>>
\* what no step of a recording session touches
\* one application of buildArgs
buildVars == <<build, args>>
otherVars == <<encVars, matchVars, buildVars, post>>

vars == <<state, process, segments, segmentIndex, outputFile, backgroundTempFile,
          foregroundTempFile, stderrLog, cachedEncoder, procs, files, clock,
          calls, ret, onErrorCalls, hist, devVars, otherVars>>

\* ---- values -------------------------------------------------------------
States == {"idle", "recording", "paused", "stopping"}
BgKinds == {"none", "bg", "bgfg"}
\* what detectEncoder() can return
Encoders == {"h264_nvenc", "h264_amf", "h264_qsv", "libx264"}
\* The session state machine never branches on which encoder was found (only
\* buildArgs reads it), so the sessions are explored with the fallback.
SessionEncoders == {"libx264"}

\* a file path: its kind, the timestamp in its name, the segment number
Path(k, s, i) == [k |-> k, s |-> s, i |-> i]
NoPath == Path("none", 0, 0)

RECURSIVE Flatten(_)
Flatten(ss) == IF ss = << >> THEN << >> ELSE Head(ss) \o Flatten(Tail(ss))

\* ---- texts: device labels and names --------------------------------------
\* a text is the sequence of its characters; << >> is '' (and a null label)
UpperCase == <<"A", "B", "C", "D", "E", "F", "G", "H", "I", "J", "K", "L", "M",
               "N", "O", "P", "Q", "R", "S", "T", "U", "V", "W", "X", "Y", "Z">>
LowerCase == <<"a", "b", "c", "d", "e", "f", "g", "h", "i", "j", "k", "l", "m",
               "n", "o", "p", "q", "r", "s", "t", "u", "v", "w", "x", "y", "z">>
Digits == {"0", "1", "2", "3", "4", "5", "6", "7", "8", "9"}
\* \w, \s and the parentheses: what normalize keeps
WordChars == {UpperCase[i] : i \in DOMAIN UpperCase} \cup
             {LowerCase[i] : i \in DOMAIN LowerCase} \cup Digits \cup {"_"}
SpaceChars == {" ", "\t"}
Parens == {"(", ")"}

\* String.prototype.toLowerCase, one character
toLowerCase(ch) ==
  IF \E i \in DOMAIN UpperCase : UpperCase[i] = ch
  THEN LowerCase[CHOOSE i \in DOMAIN UpperCase : UpperCase[i] = ch]
  ELSE ch

\* the registered sign and the trademark sign, each one character
Reg == "<reg>"
Tm == "<tm>"

\* .replace(/<reg>/g, '(r)').replace(/<tm>/g, '(tm)'), one character
Glyph(ch) == IF ch = Reg THEN <<"(", "r", ")">>
             ELSE IF ch = Tm THEN <<"(", "t", "m", ")">>
             ELSE <<ch>>

\* .replace(/[^\w\s()]/g, '')
Strip(t) == SelectSeq(t, LAMBDA ch : ch \in WordChars \cup SpaceChars \cup Parens)

\* .replace(/\s+/g, ' '): every run of whitespace becomes one blank
RECURSIVE Collapse(_)
Collapse(t) ==
  IF t = << >> THEN << >>
  ELSE IF Head(t) \in SpaceChars
  THEN IF Len(t) > 1 /\ t[2] \in SpaceChars
       THEN Collapse(Tail(t))
       ELSE <<" ">> \o Collapse(Tail(t))
  ELSE <<Head(t)>> \o Collapse(Tail(t))

\* .trim()
RECURSIVE Trim(_)
Trim(t) ==
  IF t = << >> THEN << >>
  ELSE IF Head(t) \in SpaceChars THEN Trim(Tail(t))
  ELSE IF t[Len(t)] \in SpaceChars THEN Trim(SubSeq(t, 1, Len(t) - 1))
  ELSE t

\* normalize of matchDshowDevice (lines 188-193)
normalize(t) ==
  Trim(Collapse(Strip(Flatten([i \in DOMAIN t |-> Glyph(toLowerCase(t[i]))]))))

\* String.prototype.includes
includes(t, u) ==
  \E i \in 0..(Len(t) - Len(u)) : SubSeq(t, i + 1, i + Len(u)) = u

\* the result of Array.prototype.find, and of matchDshowDevice: found = FALSE
\* is undefined / null
Null == [found |-> FALSE, name |-> << >>]
find(devs, P(_)) ==
  IF \E i \in DOMAIN devs : P(devs[i])
  THEN [found |-> TRUE,
        name |-> devs[CHOOSE i \in DOMAIN devs :
                        P(devs[i]) /\ \A j \in 1..(i - 1) : ~P(devs[j])]]
  ELSE Null
\* `if (x) return x`: an empty string is falsy
Truthy(r) == r.found /\ r.name # << >>

\* a matching that tries containment before normalized equality
matchSubstringFirst(label, devs) ==
  IF label = << >> THEN Null
  ELSE LET exact == find(devs, LAMBDA d : d = label)
           normalizedLabel == normalize(label)
           normalizedMatch == find(devs, LAMBDA d : normalize(d) = normalizedLabel)
           substringMatch == find(devs, LAMBDA d : \/ includes(normalizedLabel, normalize(d))
                                                   \/ includes(normalize(d), normalizedLabel))
       IN IF Truthy(exact) THEN exact ELSE IF Truthy(substringMatch) THEN substringMatch
          ELSE IF Truthy(normalizedMatch) THEN normalizedMatch ELSE Null

\* matchDshowDevice (lines 180-208)
matchDshowDevice(label, devs) ==
  IF label = << >> THEN Null
  ELSE LET exact == find(devs, LAMBDA d : d = label)
           normalizedLabel == normalize(label)
           normalizedMatch == find(devs, LAMBDA d : normalize(d) = normalizedLabel)
           substringMatch ==
             find(devs, LAMBDA d : \/ includes(normalizedLabel, normalize(d))
                                  \/ includes(normalize(d), normalizedLabel))
       IN IF Truthy(exact) THEN exact
          ELSE IF Truthy(normalizedMatch) THEN normalizedMatch
          ELSE IF Truthy(substringMatch) THEN substringMatch
          ELSE Null

\* ---- configuration -------------------------------------------------------
Modes == {"screen", "camera", "screen-camera"}
\* the labels and device names the sessions are explored with
CamLabel == <<"C", "a", "m", Reg>>
CamName == <<"c", "a", "m", "(", "R", ")">>
OtherName == <<"W", "e", "b">>
MicName == <<"M", "i", "c">>
Labels == {<< >>, CamLabel, OtherName, MicName}

\* RecordingConfig, reduced to what start() branches on
Configs == [folder : BOOLEAN, mode : Modes, cameraLabel : Labels,
            useFloatingCamera : BOOLEAN, microphoneLabel : Labels, bg : BgKinds]
NoConfig == [folder |-> FALSE, mode |-> "screen", cameraLabel |-> << >>,
             useFloatingCamera |-> FALSE, microphoneLabel |-> << >>, bg |-> "none"]
\* lines 230-233
needsCamera(cfg) == /\ cfg.cameraLabel # << >>
                    /\ cfg.mode \in {"camera", "screen-camera"}
                    /\ ~cfg.useFloatingCamera
needsMic(cfg) == cfg.microphoneLabel # << >>

\* what a listing can yield: { video, audio }
NoListing == [video |-> << >>, audio |-> << >>]
Listings == {NoListing,
             [video |-> <<CamName>>, audio |-> <<MicName>>],
             [video |-> <<OtherName, CamName>>, audio |-> << >>]}
NoDevices == [cached |-> FALSE, video |-> << >>, audio |-> << >>]
Cached(l) == [cached |-> TRUE, video |-> l.video, audio |-> l.audio]
\* a listing subprocess; failed: it could not be launched; killed: the
\* 5-second timer has fired
NoList == [status |-> "none", failed |-> FALSE, killed |-> FALSE]

\* ---- encoder probe -------------------------------------------------------
\* the candidates of detectEncoder, in its order (lines 71-75)
candidates == <<"h264_nvenc", "h264_amf", "h264_qsv">>
\* a detectEncoder() call: pc is "idle" (not made), "trial" (awaiting the
\* trial of candidates[cand]) or "done" (returned result); log is the history
\* of how its trials ended
NoDetect == [pc |-> "idle", cand |-> 0, result |-> "none", log |-> << >>]
\* how a trial can end (testEncoder, lines 91-119): 'close' with code 0,
\* 'close' with another code, 'error', the 5-second timeout, spawn throwing
TrialEnds == {"exit0", "exit1", "error", "timeout", "throw"}

\* sig: what the controller has last sent to the subprocess: "none", "quit"
\* ('q' on stdin) or "kill" (which no later 'q' undoes)
NoProc == [status |-> "none", resolved |-> FALSE, sig |-> "none",
           wrote |-> FALSE, path |-> NoPath]
NoCall == [op |-> "none", pc |-> "idle", proc |-> 0, bg |-> "none", ts |-> 0,
           path |-> NoPath, out |-> NoPath, list |-> << >>, snap |-> {},
           cfg |-> NoConfig]
\* a subprocess that is gone: its start is decided, and what was sent to it
\* and where it wrote are of no further effect
Closed(pr) == [NoProc EXCEPT !.status = "closed", !.resolved = TRUE]
\* a result: listed holds the device names enumerated in an error message
NoRet == [op |-> "none", ok |-> FALSE, kind |-> "none", path |-> NoPath,
          listed |-> << >>]

Fail(op, kind) == [NoRet EXCEPT !.op = op, !.kind = kind]
Ok(op) == [NoRet EXCEPT !.op = op, !.ok = TRUE, !.kind = "ok"]

\* ---- command builder: values ---------------------------------------------
\* an optional rectangle or size; set = FALSE is undefined
NoArea == [set |-> FALSE, x |-> 0, y |-> 0, w |-> 0, h |-> 0]
Area(x, y, w, h) == [set |-> TRUE, x |-> x, y |-> y, w |-> w, h |-> h]
NoSize == [set |-> FALSE, w |-> 0, h |-> 0]
Size(w, h) == [set |-> TRUE, w |-> w, h |-> h]
\* screenSource: null, a window or a screen
NoSource == [set |-> FALSE, name |-> << >>, isScreen |-> FALSE]
WindowSource == [set |-> TRUE, name |-> <<"E", "d", "i", "t">>, isScreen |-> FALSE]
ScreenSource == [set |-> TRUE, name |-> <<"S", "1">>, isScreen |-> TRUE]
Resolutions == {"source", "720p", "1080p", "1440p", "4k"}
Shapes == {"circle", "rounded"}

\* an argument is a text in pieces: the literal parts of the template and
\* the interpolated values; String(n) of a number is its decimal form
Str(n) == <<ToString(n)>>
\* Array.prototype.join
RECURSIVE join(_, _)
join(parts, sep) ==
  IF parts = << >> THEN << >>
  ELSE IF Len(parts) = 1 THEN parts[1]
  ELSE parts[1] \o sep \o join(Tail(parts), sep)
\* Array.prototype.indexOf on argv, 0 for -1
indexOf(argv, arg) ==
  IF \E i \in DOMAIN argv : argv[i] = arg
  THEN CHOOSE i \in DOMAIN argv : argv[i] = arg /\ \A j \in 1..(i - 1) : argv[j] # arg
  ELSE 0

\* Math.round(a * (n / d)) for d > 0, in exact arithmetic
RoundScaled(a, n, d) == (2 * a * n + d) \div (2 * d)
\* Math.min(w / pw, h / ph) as a fraction
MinRatio(w, pw, h, ph) == IF w * ph <= h * pw THEN [n |-> w, d |-> pw]
                          ELSE [n |-> h, d |-> ph]

\* getResolution (lines 724-732)
getResolution(preset) ==
  IF preset = "720p" THEN Size(1280, 720)
  ELSE IF preset = "1080p" THEN Size(1920, 1080)
  ELSE IF preset = "1440p" THEN Size(2560, 1440)
  ELSE IF preset = "4k" THEN Size(3840, 2160)
  ELSE NoSize

\* `scale=W:H:force_original_aspect_ratio=decrease,pad=W:H:(ow-iw)/2:(oh-ih)/2`
\* (lines 628, 630, 717)
scalePad(res) ==
  <<"scale=">> \o Str(res.w) \o <<":">> \o Str(res.h)
    \o <<":force_original_aspect_ratio=decrease", ",", "pad=">>
    \o Str(res.w) \o <<":">> \o Str(res.h) \o <<":(ow-iw)/2:(oh-ih)/2">>

\* mutant of audioPlain: the camera-only chain advances the timestamps too
audioPlainAdvanced ==
  <<"asetpts=PTS-STARTPTS", "+1/TB", ",", "aresample=async=1000", ",", "apad">>

\* the audio chain of the branches that capture the screen (lines 578, 589,
\* 615) and of the camera-only branch (line 605)
audioOffset == <<"asetpts=PTS-STARTPTS", "+1/TB", ",", "aresample=async=1000", ",", "apad">>
audioPlain == <<"asetpts=PTS-STARTPTS", ",", "aresample=async=1000", ",", "apad">>

\* the alpha mask of a circle of radius r (lines 694-695, 869-870)
circleMask(r) ==
  <<"geq=lum='lum(X,Y)':cb='cb(X,Y)':cr='cr(X,Y)':", "a='if(lte(pow(X-">> \o Str(r)
    \o <<",2)+pow(Y-">> \o Str(r) \o <<",2),pow(">> \o Str(r) \o <<",2)),255,0)'">>

\* buildFilterGraph (lines 669-722); baseLabel << >> is undefined
buildFilterGraph(config, screenIdx, camIdx, baseLabel) ==
  LET res == getResolution(config.outputResolution)
      target == IF baseLabel # << >> /\ config.backgroundOutputSize.set
                THEN config.backgroundOutputSize
                ELSE IF config.outputResolution # "source" /\ res.set THEN res
                ELSE Size(1920, 1080)
      scaleFactor == MinRatio(target.w, config.previewWidth,
                              target.h, config.previewHeight)
      camSize == RoundScaled(config.cameraSize, scaleFactor.n, scaleFactor.d)
      r == camSize \div 2
      camX == RoundScaled(config.cameraPosition.x, target.w, config.previewWidth)
      camY == RoundScaled(config.cameraPosition.y, target.h, config.previewHeight)
      cropAndScale == <<"crop='min(iw,ih)':'min(iw,ih)'", ",", "scale=">>
                        \o Str(camSize) \o <<":">> \o Str(camSize)
      camFilter ==
        IF config.cameraShape = "circle"
        THEN <<"[">> \o Str(camIdx) \o <<":v]", "setpts=PTS-STARTPTS", ",", "hflip", ",">>
               \o cropAndScale \o <<",", "format=yuva420p", ",">>
               \o circleMask(r) \o <<"[cam]">>
        ELSE <<"[">> \o Str(camIdx) \o <<":v]", "setpts=PTS-STARTPTS", ",", "hflip", ",">>
               \o cropAndScale \o <<"[cam]">>
      overlay == <<"overlay=">> \o Str(camX) \o <<":">> \o Str(camY) \o <<"[out]">>
  IN IF baseLabel # << >>
     THEN camFilter \o <<";", "[">> \o baseLabel \o <<"]", "[cam]">> \o overlay
     ELSE IF config.outputResolution # "source" /\ res.set
     THEN <<"[">> \o Str(screenIdx) \o <<":v]", "setpts=PTS-STARTPTS", ",">>
            \o scalePad(res) \o <<"[screen]", ";">>
            \o camFilter \o <<";", "[screen]", "[cam]">> \o overlay
     ELSE camFilter \o <<";", "[">> \o Str(screenIdx)
            \o <<":v]", "setpts=PTS-STARTPTS", "[sp]", ";", "[sp]", "[cam]">> \o overlay

\* the encoder settings of buildArgs (lines 636-654)
encoderArgs(enc) ==
  IF enc = "libx264" THEN <<<<"-preset">>, <<"ultrafast">>, <<"-crf">>, <<"18">>>>
  ELSE IF enc = "h264_nvenc"
  THEN <<<<"-preset">>, <<"p4">>, <<"-cq">>, <<"18">>, <<"-rc">>, <<"vbr">>>>
  ELSE IF enc = "h264_amf"
  THEN <<<<"-quality">>, <<"speed">>, <<"-rc">>, <<"cqp">>, <<"-qp_i">>, <<"18">>,
         <<"-qp_p">>, <<"18">>>>
  ELSE IF enc = "h264_qsv"
  THEN <<<<"-preset">>, <<"fast">>, <<"-global_quality">>, <<"18">>>>
  ELSE << >>

\* literal arguments: each string is one argument
Lit(ss) == [i \in DOMAIN ss |-> <<ss[i]>>]
\* a path written into an argument
PathText(path) == <<path.k, "_">> \o Str(path.s) \o <<"_">> \o Str(path.i)

\* lines 485-490
hasScreen(config) == config.mode \in {"screen", "screen-camera"}
hasCamera(config) == /\ config.cameraLabel # << >>
                     /\ config.mode \in {"camera", "screen-camera"}
                     /\ ~config.useFloatingCamera
hasMic(config) == config.microphoneLabel # << >>
hasBackground(config, bgFile) == bgFile # NoPath /\ config.backgroundContentArea.set

\* mutant of cameraInputIdx: the background image is not counted
cameraInputIdxNoBg(config, bgFile) ==
  IF hasCamera(config) THEN (IF hasScreen(config) THEN 1 ELSE 0) ELSE -1

\* the input indices (lines 493-553): -1 for an input that is absent
bgInputIdx(config, bgFile) == IF hasBackground(config, bgFile) THEN 0 ELSE -1
screenInputIdx(config, bgFile) ==
  IF hasScreen(config) THEN (IF hasBackground(config, bgFile) THEN 1 ELSE 0) ELSE -1
cameraInputIdx(config, bgFile) ==
  IF hasCamera(config)
  THEN (IF hasBackground(config, bgFile) THEN 1 ELSE 0)
         + (IF hasScreen(config) THEN 1 ELSE 0)
  ELSE -1
micInputIdx(config, bgFile) ==
  IF hasMic(config)
  THEN (IF hasBackground(config, bgFile) THEN 1 ELSE 0)
         + (IF hasScreen(config) THEN 1 ELSE 0)
         + (IF hasCamera(config) THEN 1 ELSE 0)
  ELSE -1

\* the inputs (lines 500-553)
inputArgs(config, bgFile) ==
  (IF hasBackground(config, bgFile)
   THEN Lit(<<"-loop", "1", "-framerate">>) \o <<Str(config.fps), <<"-i">>, PathText(bgFile)>>
   ELSE << >>)
  \o
  (IF hasScreen(config)
   THEN Lit(<<"-thread_queue_size", "512", "-f", "gdigrab", "-framerate">>)
          \o <<Str(config.fps)>> \o Lit(<<"-draw_mouse", "1">>)
          \o (IF config.screenSource.set /\ ~config.screenSource.isScreen
              THEN <<<<"-i">>, <<"title=">> \o config.screenSource.name>>
              ELSE (IF config.screenRegion.set
                    THEN <<<<"-offset_x">>, Str(config.screenRegion.x),
                           <<"-offset_y">>, Str(config.screenRegion.y),
                           <<"-video_size">>,
                           Str(config.screenRegion.w) \o <<"x">> \o Str(config.screenRegion.h)>>
                    ELSE << >>)
                   \o Lit(<<"-i", "desktop">>))
   ELSE << >>)
  \o
  (IF hasCamera(config)
   THEN Lit(<<"-thread_queue_size", "512", "-f", "dshow", "-rtbufsize", "100M", "-i">>)
          \o <<<<"video=">> \o config.cameraLabel>>
   ELSE << >>)
  \o
  (IF hasMic(config)
   THEN Lit(<<"-thread_queue_size", "512", "-f", "dshow", "-i">>)
          \o <<<<"audio=">> \o config.microphoneLabel>>
   ELSE << >>)

\* filters and mapping (lines 557-620), one branch of four
filterArgs(config, bgFile) ==
  LET bgIdx == bgInputIdx(config, bgFile)
      screenIdx == screenInputIdx(config, bgFile)
      camIdx == cameraInputIdx(config, bgFile)
      micIdx == micInputIdx(config, bgFile)
      ca == config.backgroundContentArea
      micChain == <<"[">> \o Str(micIdx) \o <<":a]">> \o audioOffset \o <<"[aout]">>
      micMap == IF micIdx >= 0 THEN Lit(<<"-map", "[aout]", "-shortest">>) ELSE << >>
  IN IF hasBackground(config, bgFile) /\ hasScreen(config)
     THEN LET withCam == hasCamera(config) /\ camIdx >= 0
              filterParts ==
                <<<<"[">> \o Str(screenIdx) \o <<":v]", "setpts=PTS-STARTPTS", ",", "scale=">>
                    \o Str(ca.w) \o <<":">> \o Str(ca.h) \o <<"[screen]">>,
                  <<"[">> \o Str(bgIdx) \o <<":v]", "[screen]", "overlay=">>
                    \o Str(ca.x) \o <<":">> \o Str(ca.y) \o <<":shortest=1", "[bg_out]">>>>
                \o (IF withCam
                    THEN <<buildFilterGraph(config, -1, camIdx, <<"bg_out">>)>>
                    ELSE << >>)
                \o (IF micIdx >= 0 THEN <<micChain>> ELSE << >>)
              lastLabel == IF withCam THEN "out" ELSE "bg_out"
          IN <<<<"-filter_complex">>, join(filterParts, <<";">>),
               <<"-map">>, <<"[", lastLabel, "]">>>> \o micMap
     ELSE IF config.mode = "screen-camera" /\ hasScreen(config) /\ hasCamera(config)
     THEN <<<<"-filter_complex">>,
            buildFilterGraph(config, screenIdx, camIdx, << >>)
              \o (IF micIdx >= 0 THEN <<";">> \o micChain ELSE << >>)>>
            \o Lit(<<"-map", "[out]">>) \o micMap
     ELSE IF config.mode = "camera" /\ hasCamera(config)
     THEN <<<<"-vf">>, <<"setpts=PTS-STARTPTS", ",", "hflip">>,
            <<"-map">>, Str(camIdx) \o <<":v">>>>
            \o (IF micIdx >= 0
                THEN <<<<"-map">>, Str(micIdx) \o <<":a">>, <<"-af">>, audioPlain,
                       <<"-shortest">>>>
                ELSE << >>)
     ELSE (IF screenIdx >= 0
           THEN <<<<"-map">>, Str(screenIdx) \o <<":v">>,
                  <<"-vf">>, <<"setpts=PTS-STARTPTS">>>>
           ELSE << >>)
          \o (IF micIdx >= 0
              THEN <<<<"-map">>, Str(micIdx) \o <<":a">>, <<"-af">>, audioOffset,
                     <<"-shortest">>>>
              ELSE << >>)

\* resolution scaling (lines 622-633) of the arguments so far
scaleArgs(config, bgFile, argv) ==
  LET res == getResolution(config.outputResolution)
      existingVf == indexOf(argv, <<"-vf">>)
  IN IF /\ ~hasBackground(config, bgFile) /\ config.outputResolution # "source"
        /\ hasScreen(config) /\ config.mode # "screen-camera" /\ res.set
     THEN IF existingVf > 0
          THEN [argv EXCEPT ![existingVf + 1] = @ \o <<",">> \o scalePad(res)]
          ELSE argv \o <<<<"-vf">>, scalePad(res)>>
     ELSE argv

\* buildArgs (lines 482-667); bgFile is this.backgroundTempFile
buildArgs(config, outputPath, encoder, bgFile) ==
  scaleArgs(config, bgFile,
            Lit(<<"-y", "-sws_flags", "fast_bilinear">>)
              \o inputArgs(config, bgFile) \o filterArgs(config, bgFile))
    \o Lit(<<"-threads", "0", "-c:v", encoder>>)
    \o encoderArgs(encoder)
    \o Lit(<<"-pix_fmt", "yuv420p", "-movflags",
             "+frag_keyframe+empty_moov+default_base_moof">>)
    \o (IF hasMic(config) THEN Lit(<<"-c:a", "aac", "-b:a", "192k">>) ELSE << >>)
    \o <<PathText(outputPath)>>

\* ---- command builder and post-processing: inputs ---------------------------
\* RecordingConfig as buildArgs and buildFilterGraph read it (lines 6-35)
BuildConfig(m, src, reg, cam, mic, fl, res, sh, area, out, cs, cp, pv) ==
  [mode |-> m, screenSource |-> src, screenRegion |-> reg,
   cameraLabel |-> cam, microphoneLabel |-> mic, useFloatingCamera |-> fl,
   outputResolution |-> res, cameraShape |-> sh, fps |-> 30,
   backgroundContentArea |-> area, backgroundOutputSize |-> out,
   cameraSize |-> cs, cameraPosition |-> cp,
   previewWidth |-> pv.w, previewHeight |-> pv.h]
NoBuildConfig ==
  BuildConfig("screen", NoSource, NoArea, << >>, << >>, FALSE, "source", "circle",
              NoArea, NoSize, 0, [x |-> 0, y |-> 0], Size(1, 1))
\* buildArgs not called
NoBuild == [config |-> NoBuildConfig, outputPath |-> NoPath, encoder |-> "none",
            backgroundTempFile |-> NoPath]
\* the options of postProcessCamera (lines 827-838)
PostConfig(screenPath, cameraPath, outputPath, camSize, camPos, shape, out, preview) ==
  [screenPath |-> screenPath, cameraPath |-> cameraPath, outputPath |-> outputPath,
   cameraSize |-> camSize, cameraPosition |-> camPos, cameraShape |-> shape,
   outputWidth |-> out.w, outputHeight |-> out.h,
   previewWidth |-> preview.w, previewHeight |-> preview.h]
NoPostConfig ==
  PostConfig(NoPath, NoPath, NoPath, 0, [x |-> 0, y |-> 0], "circle", Size(1, 1), Size(1, 1))
\* a postProcessCamera() call: pc is "idle" (not made), "enc" (awaiting
\* detectEncoder), "rename" (awaiting the rename), "run" (awaiting the overlay
\* pass) or "done" (returned); proc is the overlay subprocess: "none",
\* "running", "failed" (could not be launched, 'error' not delivered yet),
\* "errored", "exit0", "exit1" (gone, 'close' not delivered yet), "closed";
\* timer: the 5-minute timer is pending
NoPost == [pc |-> "idle", config |-> NoPostConfig, encoder |-> "none",
           actualScreenPath |-> NoPath, argv |-> << >>, proc |-> "none",
           timer |-> FALSE, result |-> NoRet]

\* ---- postProcessCamera: its command ----------------------------------------
\* mutant of postFilter: the offsets are scaled by the common factor
postFilterUniform(config) ==
  LET scaleFactor == MinRatio(config.outputWidth, config.previewWidth,
                              config.outputHeight, config.previewHeight)
      camSize == RoundScaled(config.cameraSize, scaleFactor.n, scaleFactor.d)
      r == camSize \div 2
      camX == RoundScaled(config.cameraPosition.x, scaleFactor.n, scaleFactor.d)
      camY == RoundScaled(config.cameraPosition.y, scaleFactor.n, scaleFactor.d)
      cropAndScale == <<"crop='min(iw,ih)':'min(iw,ih)'", ",", "scale=">>
                        \o Str(camSize) \o <<":">> \o Str(camSize)
      camFilter ==
        IF config.cameraShape = "circle"
        THEN <<"[", "1", ":v]", "hflip", ",">> \o cropAndScale
               \o <<",", "format=yuva420p", ",">> \o circleMask(r) \o <<"[cam]">>
        ELSE <<"[", "1", ":v]", "hflip", ",">> \o cropAndScale \o <<"[cam]">>
  IN camFilter \o <<";", "[", "0", ":v]", "[cam]", "overlay=">>
       \o Str(camX) \o <<":">> \o Str(camY) \o <<"[out]">>

\* the overlay filter (lines 854-877)
postFilter(config) ==
  LET scaleFactor == MinRatio(config.outputWidth, config.previewWidth,
                              config.outputHeight, config.previewHeight)
      camSize == RoundScaled(config.cameraSize, scaleFactor.n, scaleFactor.d)
      r == camSize \div 2
      camX == RoundScaled(config.cameraPosition.x, config.outputWidth, config.previewWidth)
      camY == RoundScaled(config.cameraPosition.y, config.outputHeight, config.previewHeight)
      cropAndScale == <<"crop='min(iw,ih)':'min(iw,ih)'", ",", "scale=">>
                        \o Str(camSize) \o <<":">> \o Str(camSize)
      camFilter ==
        IF config.cameraShape = "circle"
        THEN <<"[", "1", ":v]", "hflip", ",">> \o cropAndScale
               \o <<",", "format=yuva420p", ",">> \o circleMask(r) \o <<"[cam]">>
        ELSE <<"[", "1", ":v]", "hflip", ",">> \o cropAndScale \o <<"[cam]">>
  IN camFilter \o <<";", "[", "0", ":v]", "[cam]", "overlay=">>
       \o Str(camX) \o <<":">> \o Str(camY) \o <<"[out]">>

\* the encoder settings of the overlay pass (lines 889-898)
postEncoderArgs(enc) ==
  IF enc = "libx264" THEN Lit(<<"-preset", "fast", "-crf", "18">>)
  ELSE IF enc = "h264_nvenc" THEN Lit(<<"-preset", "p4", "-cq", "18", "-rc", "vbr">>)
  ELSE IF enc = "h264_amf"
  THEN Lit(<<"-quality", "speed", "-rc", "cqp", "-qp_i", "18", "-qp_p", "18">>)
  ELSE IF enc = "h264_qsv" THEN Lit(<<"-preset", "fast", "-global_quality", "18">>)
  ELSE << >>

\* the arguments of the overlay pass (lines 879-903)
postArgs(config, actualScreenPath, encoder) ==
  <<<<"-y">>, <<"-i">>, PathText(actualScreenPath), <<"-i">>, PathText(config.cameraPath),
    <<"-filter_complex">>, postFilter(config)>>
    \o Lit(<<"-map", "[out]", "-map", "0:a?", "-c:v", encoder>>)
    \o postEncoderArgs(encoder)
    \o Lit(<<"-pix_fmt", "yuv420p", "-c:a", "copy", "-movflags", "+faststart">>)
    \o <<PathText(config.outputPath)>>

\* config.screenPath.replace(/\.mp4$/, '_screen_temp.mp4') (line 845)
screenTempPath(path) == Path("screen_temp", path.s, path.i)

\* pcs at which the continuation is a microtask: it runs before any other
\* event or IPC call is dispatched
MicroPcs == {"seg_spawn", "p_cont", "st_cont"}
Ready == \A c \in Slots : calls[c].pc \notin MicroPcs

InProgress(c) == calls[c].op # "none"
\* a new call takes the lowest free slot
FreeSlot(c) == /\ ~InProgress(c)
               /\ \A d \in Slots : d < c => InProgress(d)

NumProcs == Cardinality({p \in ProcIds : procs[p].status # "none"})
\* calls that have been accepted and will still spawn a recording subprocess
WillSpawn == {c \in Slots : /\ calls[c].op \in {"start", "resume"}
                            /\ calls[c].pc # "seg_wait"}
CanSpawn == NumProcs + Cardinality(WillSpawn) < MaxProcs
\* start() calls accepted that have not fixed their output path yet
CanStart == clock + Cardinality({c \in Slots : calls[c].pc = "s_devices"}) < MaxSessions

Exists(path) == path \in DOMAIN files
Remove(fs, paths) == [q \in (DOMAIN fs) \ paths |-> fs[q]]
Put(fs, path, content) == [q \in (DOMAIN fs) \cup {path} |->
                             IF q = path THEN content ELSE fs[q]]
Range(s) == {s[i] : i \in DOMAIN s}

\* getSegmentPath: `${base}_seg${this.segmentIndex}${ext}`, base from outputFile
getSegmentPath == Path("seg", outputFile.s, segmentIndex)
\* concatSegments: this.outputFile.replace('.mp4', '_segments.txt')
listPath == Path("list", outputFile.s, 0)

\* the recorder after construction (lines 44-62), but for the file system
InitFields ==
  /\ state = "idle"
  /\ process = 0
  /\ segments = << >>
  /\ segmentIndex = 0
  /\ outputFile = NoPath
  /\ backgroundTempFile = NoPath
  /\ foregroundTempFile = NoPath
  /\ stderrLog = {}
  /\ cachedEncoder = "none"
  /\ procs = [p \in ProcIds |-> NoProc]
  /\ clock = 0
  /\ calls = [c \in Slots |-> NoCall]
  /\ ret = NoRet
  /\ onErrorCalls = {}
  /\ hist = << >>
  /\ cachedDshowDevices = NoDevices
  /\ lists = [l \in ListIds |-> NoList]
  /\ detects = [d \in DetectIds |-> NoDetect]
  /\ trials = << >>

\* ... with no file written
InitRecorder ==
  /\ InitFields
  /\ files = << >>

\* ... and no matchDshowDevice applied
Init ==
  /\ InitRecorder
  /\ browserLabel = << >>
  /\ dshowDevices = << >>
  /\ matchResult = << >>
  /\ build = NoBuild
  /\ args = << >>
  /\ post = NoPost

\* a call returns: its slot is freed and the result is delivered
Return(c, r) == /\ calls' = [calls EXCEPT ![c] = NoCall]
                /\ ret' = r
                /\ hist' = IF r.ok THEN Append(hist, r.op) ELSE hist

\* a call goes on to its next await
Goto(c, rec) == /\ calls' = [calls EXCEPT ![c] = rec]
                /\ ret' = NoRet
                /\ hist' = hist

\* no promise is resolved by this event
NoResolve(cs) == /\ calls' = cs
                 /\ ret' = NoRet
                 /\ hist' = hist

\* ---- start() ------------------------------------------------------------
\* lines 265-271: the session fields are reset and the output name is fixed
\* (the timestamp in the name is taken to differ from one start to the next)
StartReset(c, bg) ==
  /\ segments' = << >>
  /\ segmentIndex' = 0
  /\ clock' = clock + 1
  /\ outputFile' = Path("out", clock + 1, 0)
  /\ calls' = [calls EXCEPT ![c] =
                 [NoCall EXCEPT !.op = "start", !.pc = "s_mkdir", !.bg = bg]]
  /\ ret' = NoRet
  /\ hist' = << >>

\* a start() that looks up the camera label only
StartDevicesNoMicCheck(c, cfg, devs) ==
  IF needsCamera(cfg) /\ ~Truthy(matchDshowDevice(cfg.cameraLabel, devs.video))
  THEN /\ Return(c, [Fail("start", "camera") EXCEPT !.listed = devs.video])
       /\ UNCHANGED <<segments, segmentIndex, outputFile, clock>>
  ELSE StartReset(c, cfg.bg)

\* start() after `await this.listDshowDevices()` has yielded devs (lines
\* 238-271): the labels are matched, and an unmatched one ends the call with
\* the names of that kind enumerated
StartDevices(c, cfg, devs) ==
  IF needsCamera(cfg) /\ ~Truthy(matchDshowDevice(cfg.cameraLabel, devs.video))
  THEN /\ Return(c, [Fail("start", "camera") EXCEPT !.listed = devs.video])
       /\ UNCHANGED <<segments, segmentIndex, outputFile, clock>>
  ELSE IF needsMic(cfg) /\ ~Truthy(matchDshowDevice(cfg.microphoneLabel, devs.audio))
  THEN /\ Return(c, [Fail("start", "microphone") EXCEPT !.listed = devs.audio])
       /\ UNCHANGED <<segments, segmentIndex, outputFile, clock>>
  ELSE StartReset(c, cfg.bg)

NumLists == Cardinality({l \in ListIds : lists[l].status # "none"})

\* start() up to its first await (lines 210-275).  listDshowDevices() (lines
\* 128-135) returns the cached catalog, which start() gets in a microtask,
\* or spawns a listing: o is "ok", or "fail" when it cannot be launched.
StartCall(c, cfg) ==
  /\ Ready /\ FreeSlot(c)
  /\ IF state # "idle"
     THEN /\ Return(c, Fail("start", "state"))
          /\ UNCHANGED <<segments, segmentIndex, outputFile, clock, lists>>
     ELSE IF ~cfg.folder
     THEN /\ Return(c, Fail("start", "folder"))
          /\ UNCHANGED <<segments, segmentIndex, outputFile, clock, lists>>
     ELSE /\ CanStart /\ CanSpawn
          /\ IF ~(needsCamera(cfg) \/ needsMic(cfg))
             THEN StartReset(c, cfg.bg) /\ UNCHANGED lists
             ELSE IF cachedDshowDevices.cached
             THEN StartDevices(c, cfg, cachedDshowDevices) /\ UNCHANGED lists
             ELSE /\ NumLists < MaxLists
                  /\ \E o \in {"ok", "fail"} :
                       lists' = [lists EXCEPT ![NumLists + 1] =
                                   IF o = "ok" THEN [NoList EXCEPT !.status = "running"]
                                   ELSE [NoList EXCEPT !.status = "failed",
                                                       !.failed = TRUE]]
                  /\ Goto(c, [NoCall EXCEPT !.op = "start", !.pc = "s_devices",
                                            !.bg = cfg.bg, !.cfg = cfg,
                                            !.proc = NumLists + 1])
                  /\ UNCHANGED <<segments, segmentIndex, outputFile, clock>>
  /\ UNCHANGED <<state, process, backgroundTempFile, foregroundTempFile,
                 stderrLog, cachedEncoder, procs, files, onErrorCalls,
                 cachedDshowDevices, otherVars>>

\* the start() that awaits listing l, if its promise is not resolved yet
ListAwaited(l) == \E c \in Slots : calls[c].pc = "s_devices" /\ calls[c].proc = l
ListAwaiter(l) == CHOOSE c \in Slots : calls[c].pc = "s_devices" /\ calls[c].proc = l

\* the promise of listDshowDevices() for listing l is resolved with devs, if
\* it was not before, and the start() awaiting it goes on
ListResolve(l, devs) ==
  IF ListAwaited(l)
  THEN StartDevices(ListAwaiter(l), calls[ListAwaiter(l)].cfg, devs)
  ELSE /\ NoResolve(calls)
       /\ UNCHANGED <<segments, segmentIndex, outputFile, clock>>

\* 'error' handler of listDshowDevices (lines 166-168): the listing could not
\* be launched; two empty lists are returned and nothing is cached
ListError(l) ==
  /\ Ready /\ lists[l].status = "failed"
  /\ lists' = [lists EXCEPT ![l].status = "errored"]
  /\ ListResolve(l, NoListing)
  /\ UNCHANGED <<state, process, backgroundTempFile, foregroundTempFile,
                 stderrLog, cachedEncoder, procs, files, onErrorCalls,
                 cachedDshowDevices, otherVars>>

\* 'close' handler of listDshowDevices (lines 141-164): what was read from
\* stderr is parsed into out and cached.  'close' is also emitted after the
\* 'error' of a failed launch; nothing was read then.
ListClose(l, out) ==
  /\ Ready /\ lists[l].status \in {"running", "errored"}
  /\ lists[l].status = "errored" => out = NoListing
  /\ lists' = [lists EXCEPT ![l].status = "closed"]
  /\ cachedDshowDevices' = Cached(out)
  /\ ListResolve(l, out)
  /\ UNCHANGED <<state, process, backgroundTempFile, foregroundTempFile,
                 stderrLog, cachedEncoder, procs, files, onErrorCalls, otherVars>>

\* the 5-second timer of listDshowDevices (lines 170-172): proc.kill()
ListTimer(l) ==
  /\ Ready /\ lists[l].status = "running" /\ ~lists[l].killed
  /\ lists' = [lists EXCEPT ![l].killed = TRUE]
  /\ UNCHANGED <<state, process, segments, segmentIndex, outputFile,
                 backgroundTempFile, foregroundTempFile, stderrLog, cachedEncoder,
                 procs, files, clock, calls, onErrorCalls, hist,
                 cachedDshowDevices, otherVars>>
  /\ ret' = NoRet

\* ---- detectEncoder -------------------------------------------------------
sessionVars ==
  <<state, process, segments, segmentIndex, outputFile, backgroundTempFile,
    foregroundTempFile, stderrLog, procs, files, clock, calls, ret,
    onErrorCalls, hist>>

\* testEncoder(candidates[i]) is called by call d (lines 78, 91-98): a trial
\* subprocess is spawned
TrialBegin(d, i, log) ==
  /\ detects' = [detects EXCEPT ![d] =
                   [NoDetect EXCEPT !.pc = "trial", !.cand = i, !.log = log]]
  /\ trials' = Append(trials, candidates[i])
  /\ UNCHANGED cachedEncoder

\* detectEncoder returns enc to call d, having cached it (lines 81-82, 87-88)
DetectReturn(d, enc, log) ==
  /\ cachedEncoder' = enc
  /\ detects' = [detects EXCEPT ![d] =
                   [detects[d] EXCEPT !.pc = "done", !.result = enc, !.log = log]]
  /\ UNCHANGED trials

\* detectEncoder() is called (lines 68-78): the cached result is returned, or
\* the trial of the first candidate begins
DetectCall(d) ==
  /\ detects[d].pc = "idle"
  /\ IF cachedEncoder # "none"
     THEN DetectReturn(d, cachedEncoder, << >>)
     ELSE TrialBegin(d, 1, << >>)
  /\ UNCHANGED <<sessionVars, devVars, matchVars, buildVars, post>>

\* a trial that was killed by its timeout counts as a success
TrialEndTimeoutWorks(d, end) ==
  /\ detects[d].pc = "trial"
  /\ LET i == detects[d].cand
         log == Append(detects[d].log, end)
     IN IF end \in {"exit0", "timeout"} THEN DetectReturn(d, candidates[i], log)
        ELSE IF i < Len(candidates) THEN TrialBegin(d, i + 1, log)
        ELSE DetectReturn(d, "libx264", log)
  /\ UNCHANGED <<sessionVars, devVars, matchVars, buildVars, post>>

\* the promise of testEncoder is resolved (lines 101-117) and detectEncoder
\* goes on (lines 78-88): works is `code === 0` of 'close', and false for
\* 'error', for the timeout and for a spawn that threw
TrialEnd(d, end) ==
  /\ detects[d].pc = "trial"
  /\ LET i == detects[d].cand
         log == Append(detects[d].log, end)
     IN IF end = "exit0" THEN DetectReturn(d, candidates[i], log)
        ELSE IF i < Len(candidates) THEN TrialBegin(d, i + 1, log)
        ELSE DetectReturn(d, "libx264", log)
  /\ UNCHANGED <<sessionVars, devVars, matchVars, buildVars, post>>

\* startSegment() up to `await this.detectEncoder()` (lines 311-316): the
\* segment path is registered; with a cached encoder the await is a microtask
SegBegin(c) ==
  /\ segments' = Append(segments, getSegmentPath)
  /\ Goto(c, [calls[c] EXCEPT
                !.pc = IF cachedEncoder # "none" THEN "seg_spawn" ELSE "seg_enc",
                !.path = getSegmentPath])

\* after `await fs.promises.mkdir` (lines 274-308)
StartMkdir(c, ok) ==
  /\ Ready /\ calls[c].pc = "s_mkdir"
  /\ IF ~ok
     THEN /\ Return(c, Fail("start", "mkdir"))
          /\ UNCHANGED <<backgroundTempFile, foregroundTempFile, segments>>
     ELSE /\ backgroundTempFile' = NoPath
          /\ foregroundTempFile' = NoPath
          /\ IF calls[c].bg # "none"
             THEN /\ Goto(c, [calls[c] EXCEPT !.pc = "s_bg", !.ts = clock])
                  /\ UNCHANGED segments
             ELSE SegBegin(c)
  /\ UNCHANGED <<state, process, segmentIndex, outputFile, stderrLog,
                 cachedEncoder, procs, files, clock, onErrorCalls>>
  /\ UNCHANGED <<devVars, otherVars>>

\* after `await fs.promises.writeFile(bgPath, ...)` (lines 289-306); a failed
\* write is caught and skips the foreground file as well
StartBg(c, ok) ==
  /\ Ready /\ calls[c].pc = "s_bg"
  /\ IF ok
     THEN /\ files' = Put(files, Path("bg", calls[c].ts, 0), << >>)
          /\ backgroundTempFile' = Path("bg", calls[c].ts, 0)
          /\ IF calls[c].bg = "bgfg"
             THEN /\ Goto(c, [calls[c] EXCEPT !.pc = "s_fg"])
                  /\ UNCHANGED segments
             ELSE SegBegin(c)
     ELSE /\ SegBegin(c)
          /\ UNCHANGED <<files, backgroundTempFile>>
  /\ UNCHANGED <<state, process, segmentIndex, outputFile, foregroundTempFile,
                 stderrLog, cachedEncoder, procs, clock, onErrorCalls>>
  /\ UNCHANGED <<devVars, otherVars>>

\* after `await fs.promises.writeFile(fgPath, ...)` (lines 298-308)
StartFg(c, ok) ==
  /\ Ready /\ calls[c].pc = "s_fg"
  /\ IF ok
     THEN /\ files' = Put(files, Path("fg", calls[c].ts, 0), << >>)
          /\ foregroundTempFile' = Path("fg", calls[c].ts, 0)
     ELSE UNCHANGED <<files, foregroundTempFile>>
  /\ SegBegin(c)
  /\ UNCHANGED <<state, process, segmentIndex, outputFile, backgroundTempFile,
                 stderrLog, cachedEncoder, procs, clock, onErrorCalls>>
  /\ UNCHANGED <<devVars, otherVars>>

\* ---- startSegment() -----------------------------------------------------
\* detectEncoder() returns after its trial encodes (lines 68-89, 316)
SegEncoder(c, enc) ==
  /\ Ready /\ calls[c].pc = "seg_enc"
  /\ cachedEncoder' = enc
  /\ Goto(c, [calls[c] EXCEPT !.pc = "seg_spawn"])
  /\ UNCHANGED <<state, process, segments, segmentIndex, outputFile,
                 backgroundTempFile, foregroundTempFile, stderrLog, procs, files,
                 clock, onErrorCalls>>
  /\ UNCHANGED <<devVars, otherVars>>

\* lines 326-331 and 401-404: spawn.  "ok": the subprocess runs; "fail": it
\* could not be launched and an 'error' event follows; "throw": spawn threw
Spawn(c, outcome) ==
  /\ calls[c].pc = "seg_spawn"
  /\ stderrLog' = {}
  /\ IF outcome = "throw"
     THEN /\ state' = "idle"
          /\ Return(c, Fail(calls[c].op, "exception"))
          /\ UNCHANGED <<process, procs>>
     ELSE /\ process' = NumProcs + 1
          /\ procs' = [procs EXCEPT ![NumProcs + 1] =
                         [NoProc EXCEPT !.status = IF outcome = "ok" THEN "running"
                                                   ELSE "failed",
                                        !.path = calls[c].path]]
          /\ Goto(c, [calls[c] EXCEPT !.pc = "seg_wait", !.proc = NumProcs + 1])
          /\ UNCHANGED state
  /\ UNCHANGED <<segments, segmentIndex, outputFile, backgroundTempFile,
                 foregroundTempFile, cachedEncoder, files, clock, onErrorCalls>>
  /\ UNCHANGED <<devVars, otherVars>>

\* calls blocked in waitForExit() on subprocess p are woken (lines 809-812)
Wake(cs, p) ==
  [c \in Slots |->
     IF cs[c].pc \in {"p_wait", "st_wait"} /\ cs[c].proc = p
     THEN [cs[c] EXCEPT !.pc = IF cs[c].pc = "p_wait" THEN "p_cont" ELSE "st_cont"]
     ELSE cs[c]]

\* the start() or resume() that awaits the promise of startSegment() for p
Awaiter(p) == CHOOSE c \in Slots : calls[c].pc = "seg_wait" /\ calls[c].proc = p

\* the promise of startSegment() for subprocess p is resolved: the start()
\* or resume() awaiting it returns; cs is the call table otherwise
Resolve(p, ok, kind, cs) ==
  /\ calls' = [cs EXCEPT ![Awaiter(p)] = NoCall]
  /\ ret' = IF ok THEN Ok(calls[Awaiter(p)].op)
            ELSE Fail(calls[Awaiter(p)].op, kind)
  /\ hist' = IF ok THEN Append(hist, calls[Awaiter(p)].op) ELSE hist

\* the subprocess opens its output file (-y: an existing file is replaced);
\* the content of a file is the sequence of the recordings in it, a
\* recording being named by the segment path it was made for.  The debug
\* logs written beside the segments (lines 323-324, 357) are not modelled.
ProcWrite(p) ==
  /\ Ready /\ procs[p].status = "running" /\ ~procs[p].wrote
  /\ procs' = [procs EXCEPT ![p].wrote = TRUE]
  /\ files' = Put(files, procs[p].path, <<procs[p].path>>)
  /\ ret' = NoRet
  /\ UNCHANGED <<state, process, segments, segmentIndex, outputFile,
                 backgroundTempFile, foregroundTempFile, stderrLog, cachedEncoder,
                 clock, calls, onErrorCalls, hist>>
  /\ UNCHANGED <<devVars, otherVars>>

\* stderr 'data' handler (lines 335-345).  text is what the chunk contains:
\* a frame= progress marker, "Could not find", or neither.  this.stderrLog is
\* read only by the handlers of a subprocess whose start is not yet decided
\* and is emptied by every spawn, so chunks are delivered only while such a
\* subprocess exists.
ProcStderr(p, text) ==
  /\ Ready /\ procs[p].status = "running"
  /\ text = "frame" => procs[p].wrote
  /\ \E q \in ProcIds : procs[q].status = "running" /\ ~procs[q].resolved
  /\ LET log == IF text = "other" THEN stderrLog ELSE stderrLog \cup {text}
         hit == ~procs[p].resolved /\ "frame" \in log
     IN /\ log # stderrLog \/ hit
        /\ stderrLog' = log
        /\ IF hit
           THEN /\ procs' = [procs EXCEPT ![p].resolved = TRUE]
                /\ state' = "recording"
                /\ Resolve(p, TRUE, "ok", calls)
           ELSE /\ NoResolve(calls)
                /\ UNCHANGED <<procs, state>>
  /\ UNCHANGED <<process, segments, segmentIndex, outputFile, backgroundTempFile,
                 foregroundTempFile, cachedEncoder, files, clock, onErrorCalls>>
  /\ UNCHANGED <<devVars, otherVars>>

\* 'error' handler (lines 347-353): the subprocess could not be launched
ProcError(p) ==
  /\ Ready /\ procs[p].status = "failed"
  /\ procs' = [procs EXCEPT ![p] = Closed(procs[p])]
  /\ IF ~procs[p].resolved
     THEN /\ state' = "idle"
          /\ Resolve(p, FALSE, "spawn", calls)
     ELSE /\ NoResolve(calls)
          /\ UNCHANGED state
  /\ UNCHANGED <<process, segments, segmentIndex, outputFile, backgroundTempFile,
                 foregroundTempFile, stderrLog, cachedEncoder, files, clock,
                 onErrorCalls>>
  /\ UNCHANGED <<devVars, otherVars>>

\* mutant of ProcClose: the handler does not test `resolved` and resolves
\* the promise of the segment start whenever the subprocess exits
ProcCloseResolvesAgain(p, code) ==
  /\ Ready /\ procs[p].status = "running"
  /\ procs' = [procs EXCEPT ![p] = Closed(procs[p])]
  /\ state' = "idle"
  /\ calls' = [c \in Slots |->
                 IF calls[c].pc = "seg_wait" /\ calls[c].proc = p
                 THEN NoCall ELSE Wake(calls, p)[c]]
  /\ ret' = Fail("start", IF "notfound" \in stderrLog THEN "notfound" ELSE "exit")
  /\ hist' = hist
  /\ UNCHANGED onErrorCalls
  /\ UNCHANGED <<process, segments, segmentIndex, outputFile, backgroundTempFile,
                 foregroundTempFile, stderrLog, cachedEncoder, files, clock>>
  /\ UNCHANGED <<devVars, otherVars>>

\* the subprocess exits with code: 'close' handler of startSegment (lines
\* 355-380), then the 'close' listeners of waitForExit (lines 809-812).
\* code 1 stands for every non-zero code and for death by signal (null).
ProcClose(p, code) ==
  /\ Ready /\ procs[p].status = "running"
  /\ procs' = [procs EXCEPT ![p] = Closed(procs[p])]
  /\ IF ~procs[p].resolved
     THEN /\ state' = "idle"
          /\ Resolve(p, FALSE,
                     IF "notfound" \in stderrLog THEN "notfound" ELSE "exit",
                     Wake(calls, p))
          /\ UNCHANGED onErrorCalls
     ELSE /\ NoResolve(Wake(calls, p))
          /\ IF state = "recording"
             THEN /\ onErrorCalls' = IF code # 0 THEN onErrorCalls \cup {p}
                                     ELSE onErrorCalls
                  /\ state' = "idle"
             ELSE UNCHANGED <<onErrorCalls, state>>
  /\ UNCHANGED <<process, segments, segmentIndex, outputFile, backgroundTempFile,
                 foregroundTempFile, stderrLog, cachedEncoder, files, clock>>
  /\ UNCHANGED <<devVars, otherVars>>

\* subprocess id after this.process?.kill()
Kill(ps, q) == IF q # 0 /\ ps[q].status = "running"
               THEN [ps EXCEPT ![q].sig = "kill"] ELSE ps

\* the 5-second start timer of subprocess p fires (lines 383-400)
ProcTimer(p) ==
  /\ Ready /\ procs[p].status = "running" /\ ~procs[p].resolved
  /\ IF "notfound" \in stderrLog
     THEN /\ procs' = [Kill(procs, process) EXCEPT ![p].resolved = TRUE]
          /\ state' = "idle"
          /\ Resolve(p, FALSE, "notfound", calls)
     ELSE /\ procs' = [procs EXCEPT ![p].resolved = TRUE]
          /\ state' = "recording"
          /\ Resolve(p, TRUE, "ok", calls)
  /\ UNCHANGED <<process, segments, segmentIndex, outputFile, backgroundTempFile,
                 foregroundTempFile, stderrLog, cachedEncoder, files, clock,
                 onErrorCalls>>
  /\ UNCHANGED <<devVars, otherVars>>

\* ---- pause(), resume() --------------------------------------------------
\* gracefulStop() (lines 782-792): 'q' on stdin, or kill if the write throws
gracefulStop(ps, q, how) ==
  IF q # 0 /\ ps[q].status = "running"
  THEN IF how = "q"
       THEN [ps EXCEPT ![q].sig = IF ps[q].sig = "kill" THEN "kill" ELSE "quit"]
       ELSE [ps EXCEPT ![q].sig = "kill"]
  ELSE ps

\* waitForExit() (lines 794-820) resolves at once when there is no handle
\* or the subprocess has already exited
ExitSeen(q) == q = 0 \/ procs[q].status # "running"

\* mutant of PauseCall: the guard tests the handle only, not the state
PauseCallNoStateGuard(c, how) ==
  /\ Ready /\ FreeSlot(c)
  /\ IF process = 0
     THEN /\ Return(c, Fail("pause", "state"))
          /\ UNCHANGED <<state, procs>>
     ELSE /\ state' = "paused"
          /\ procs' = gracefulStop(procs, process, how)
          /\ Goto(c, [NoCall EXCEPT !.op = "pause", !.proc = process,
                        !.pc = IF ExitSeen(process) THEN "p_cont" ELSE "p_wait"])
  /\ UNCHANGED <<process, segments, segmentIndex, outputFile, backgroundTempFile,
                 foregroundTempFile, stderrLog, cachedEncoder, files, clock,
                 onErrorCalls>>
  /\ UNCHANGED <<devVars, otherVars>>

\* pause() up to `await this.waitForExit()` (lines 408-415)
PauseCall(c, how) ==
  /\ Ready /\ FreeSlot(c)
  /\ IF state # "recording" \/ process = 0
     THEN /\ Return(c, Fail("pause", "state"))
          /\ UNCHANGED <<state, procs>>
     ELSE /\ state' = "paused"
          /\ procs' = gracefulStop(procs, process, how)
          /\ Goto(c, [NoCall EXCEPT !.op = "pause", !.proc = process,
                        !.pc = IF ExitSeen(process) THEN "p_cont" ELSE "p_wait"])
  /\ UNCHANGED <<process, segments, segmentIndex, outputFile, backgroundTempFile,
                 foregroundTempFile, stderrLog, cachedEncoder, files, clock,
                 onErrorCalls>>
  /\ UNCHANGED <<devVars, otherVars>>

\* the 5-second timer of waitForExit() fires (lines 803-807): force kill,
\* and the wait is over without the exit having been seen
WaitTimer(c) ==
  /\ Ready /\ calls[c].pc \in {"p_wait", "st_wait"}
  /\ procs[calls[c].proc].status = "running"
  /\ procs' = Kill(procs, calls[c].proc)
  /\ Goto(c, [calls[c] EXCEPT
                !.pc = IF calls[c].pc = "p_wait" THEN "p_cont" ELSE "st_cont"])
  /\ UNCHANGED <<state, process, segments, segmentIndex, outputFile,
                 backgroundTempFile, foregroundTempFile, stderrLog, cachedEncoder,
                 files, clock, onErrorCalls>>
  /\ UNCHANGED <<devVars, otherVars>>

\* pause() after the wait (lines 416-418)
PauseCont(c) ==
  /\ calls[c].pc = "p_cont"
  /\ process' = 0
  /\ segmentIndex' = segmentIndex + 1
  /\ Return(c, Ok("pause"))
  /\ UNCHANGED <<state, segments, outputFile, backgroundTempFile,
                 foregroundTempFile, stderrLog, cachedEncoder, procs, files, clock,
                 onErrorCalls>>
  /\ UNCHANGED <<devVars, otherVars>>

\* mutant of ResumeCall: the new segment is not appended to the list
ResumeCallNoPush(c) ==
  /\ Ready /\ FreeSlot(c)
  /\ IF state # "paused"
     THEN Return(c, Fail("resume", "state"))
     ELSE /\ CanSpawn
          /\ Goto(c, [NoCall EXCEPT !.op = "resume", !.path = getSegmentPath,
                        !.pc = IF cachedEncoder # "none" THEN "seg_spawn"
                               ELSE "seg_enc"])
  /\ UNCHANGED <<state, process, segments, segmentIndex, outputFile,
                 backgroundTempFile, foregroundTempFile, stderrLog, cachedEncoder,
                 procs, files, clock, onErrorCalls>>
  /\ UNCHANGED <<devVars, otherVars>>

\* resume() (lines 421-427)
ResumeCall(c) ==
  /\ Ready /\ FreeSlot(c)
  /\ IF state # "paused"
     THEN /\ Return(c, Fail("resume", "state"))
          /\ UNCHANGED segments
     ELSE /\ CanSpawn
          /\ segments' = Append(segments, getSegmentPath)
          /\ Goto(c, [NoCall EXCEPT !.op = "resume", !.path = getSegmentPath,
                        !.pc = IF cachedEncoder # "none" THEN "seg_spawn"
                               ELSE "seg_enc"])
  /\ UNCHANGED <<state, process, segmentIndex, outputFile, backgroundTempFile,
                 foregroundTempFile, stderrLog, cachedEncoder, procs, files, clock,
                 onErrorCalls>>
  /\ UNCHANGED <<devVars, otherVars>>

\* ---- stop() --------------------------------------------------------------
\* mutant of StopCall: the guard rejects only a stop() that is already running
StopCallFromAnyState(c, how) ==
  /\ Ready /\ FreeSlot(c)
  /\ IF state = "stopping"
     THEN /\ Return(c, Fail("stop", "state"))
          /\ UNCHANGED <<state, procs>>
     ELSE /\ state' = "stopping"
          /\ procs' = gracefulStop(procs, process, how)
          /\ Goto(c, [NoCall EXCEPT !.op = "stop", !.proc = process,
                        !.pc = IF ExitSeen(process) THEN "st_cont" ELSE "st_wait",
                        !.snap = {q \in Range(segments) : Exists(q)}])
  /\ UNCHANGED <<process, segments, segmentIndex, outputFile, backgroundTempFile,
                 foregroundTempFile, stderrLog, cachedEncoder, files, clock,
                 onErrorCalls>>
  /\ UNCHANGED <<devVars, otherVars>>

\* stop() up to `await this.waitForExit()` (lines 429-439); without a handle
\* it goes on to the finalization without waiting
StopCall(c, how) ==
  /\ Ready /\ FreeSlot(c)
  /\ IF state # "recording" /\ state # "paused"
     THEN /\ Return(c, Fail("stop", "state"))
          /\ UNCHANGED <<state, procs>>
     ELSE /\ state' = "stopping"
          /\ procs' = gracefulStop(procs, process, how)
          /\ Goto(c, [NoCall EXCEPT !.op = "stop", !.proc = process,
                        !.pc = IF ExitSeen(process) THEN "st_cont" ELSE "st_wait",
                        !.snap = {q \in Range(segments) : Exists(q)}])
  /\ UNCHANGED <<process, segments, segmentIndex, outputFile, backgroundTempFile,
                 foregroundTempFile, stderrLog, cachedEncoder, files, clock,
                 onErrorCalls>>
  /\ UNCHANGED <<devVars, otherVars>>

\* lines 464-475: with a temp file to delete stop() awaits the unlink,
\* otherwise it sets the state and returns the output path out
Finish(c, out) ==
  IF backgroundTempFile # NoPath \/ foregroundTempFile # NoPath
  THEN /\ Goto(c, [calls[c] EXCEPT !.pc = "st_clean"])
       /\ UNCHANGED state
  ELSE /\ state' = "idle"
       /\ Return(c, [Ok("stop") EXCEPT !.path = out])

\* stop() after the wait (lines 440-456): choose the finalization
StopCont(c) ==
  /\ calls[c].pc = "st_cont"
  /\ process' = 0
  /\ IF Len(segments) > 1
     THEN /\ Goto(c, [calls[c] EXCEPT !.pc = "st_list", !.path = listPath,
                                     !.list = segments])
          /\ UNCHANGED state
     ELSE IF Len(segments) = 1 /\ segments[1] # outputFile
     THEN /\ Goto(c, [calls[c] EXCEPT !.pc = "st_rename", !.path = segments[1],
                                     !.out = outputFile])
          /\ UNCHANGED state
     ELSE Finish(c, outputFile)
  /\ UNCHANGED <<segments, segmentIndex, outputFile, backgroundTempFile,
                 foregroundTempFile, stderrLog, cachedEncoder, procs, files, clock,
                 onErrorCalls>>
  /\ UNCHANGED <<devVars, otherVars>>

\* concatSegments() after `await writeFile(listPath, ...)` (lines 753-765):
\* the concat subprocess is spawned; a failed write is the catch of stop()
StopList(c, ok) ==
  /\ Ready /\ calls[c].pc = "st_list"
  /\ IF ok
     THEN /\ files' = Put(files, calls[c].path, << >>)
          /\ Goto(c, [calls[c] EXCEPT !.pc = "st_concat", !.out = outputFile])
          /\ UNCHANGED state
     ELSE /\ state' = "idle"
          /\ Return(c, [Fail("stop", "concat") EXCEPT
                          !.path = IF segments # << >> THEN segments[1] ELSE NoPath])
          /\ UNCHANGED files
  /\ UNCHANGED <<process, segments, segmentIndex, outputFile, backgroundTempFile,
                 foregroundTempFile, stderrLog, cachedEncoder, procs, clock,
                 onErrorCalls>>
  /\ UNCHANGED <<devVars, otherVars>>

\* mutant of ConcatClose: the list file is not unlinked
ConcatCloseKeepList(c, code) ==
  /\ Ready /\ calls[c].pc = "st_concat"
  /\ IF code = 0
     THEN /\ \A i \in DOMAIN calls[c].list : Exists(calls[c].list[i])
          /\ files' = Remove(Put(files, calls[c].out,
                                 Flatten([i \in DOMAIN calls[c].list |->
                                            files[calls[c].list[i]]])),
                             Range(segments))
          /\ Finish(c, outputFile)
     ELSE /\ state' = "idle"
          /\ Return(c, [Fail("stop", "concat") EXCEPT
                          !.path = IF segments # << >> THEN segments[1] ELSE NoPath])
          /\ UNCHANGED files
  /\ UNCHANGED <<process, segments, segmentIndex, outputFile, backgroundTempFile,
                 foregroundTempFile, stderrLog, cachedEncoder, procs, clock,
                 onErrorCalls>>
  /\ UNCHANGED <<devVars, otherVars>>

\* mutant of ConcatClose: the segment files and the list file are unlinked
\* whatever the exit code
ConcatCloseCleanAlways(c, code) ==
  /\ Ready /\ calls[c].pc = "st_concat"
  /\ IF code = 0
     THEN /\ \A i \in DOMAIN calls[c].list : Exists(calls[c].list[i])
          /\ files' = Remove(Put(files, calls[c].out,
                                 Flatten([i \in DOMAIN calls[c].list |->
                                            files[calls[c].list[i]]])),
                             Range(segments) \cup {calls[c].path})
          /\ Finish(c, outputFile)
     ELSE /\ state' = "idle"
          /\ Return(c, [Fail("stop", "concat") EXCEPT
                          !.path = IF segments # << >> THEN segments[1] ELSE NoPath])
          /\ files' = Remove(files, Range(segments) \cup {calls[c].path})
  /\ UNCHANGED <<process, segments, segmentIndex, outputFile, backgroundTempFile,
                 foregroundTempFile, stderrLog, cachedEncoder, procs, clock,
                 onErrorCalls>>
  /\ UNCHANGED <<devVars, otherVars>>

\* the concat subprocess ends (lines 767-779, 445-450).  It can exit with
\* code 0 only if every listed segment file is there; then the output holds
\* the listed segments in list order, and the segment files and the list
\* file are unlinked (a missing file is ignored).
ConcatClose(c, code) ==
  /\ Ready /\ calls[c].pc = "st_concat"
  /\ IF code = 0
     THEN /\ \A i \in DOMAIN calls[c].list : Exists(calls[c].list[i])
          /\ files' = Remove(Put(files, calls[c].out,
                                 Flatten([i \in DOMAIN calls[c].list |->
                                            files[calls[c].list[i]]])),
                             Range(segments) \cup {calls[c].path})
          /\ Finish(c, outputFile)
     ELSE /\ state' = "idle"
          /\ Return(c, [Fail("stop", "concat") EXCEPT
                          !.path = IF segments # << >> THEN segments[1] ELSE NoPath])
          /\ UNCHANGED files
  /\ UNCHANGED <<process, segments, segmentIndex, outputFile, backgroundTempFile,
                 foregroundTempFile, stderrLog, cachedEncoder, procs, clock,
                 onErrorCalls>>
  /\ UNCHANGED <<devVars, otherVars>>

\* mutant of StopRename: the rename is reported done but moves nothing
StopRenameNoMove(c, ok) ==
  /\ Ready /\ calls[c].pc = "st_rename"
  /\ IF ok
     THEN /\ Exists(calls[c].path)
          /\ Finish(c, outputFile)
          /\ UNCHANGED outputFile
     ELSE /\ outputFile' = calls[c].path
          /\ Finish(c, calls[c].path)
  /\ UNCHANGED <<process, segments, segmentIndex, backgroundTempFile,
                 foregroundTempFile, stderrLog, cachedEncoder, procs, clock,
                 onErrorCalls, files>>
  /\ UNCHANGED <<devVars, otherVars>>

\* a stop() that forgets its output path when the rename fails
StopRenameClearsOutput(c, ok) ==
  /\ Ready /\ calls[c].pc = "st_rename"
  /\ IF ok
     THEN /\ Exists(calls[c].path)
          /\ files' = Put(Remove(files, {calls[c].path}), calls[c].out,
                          files[calls[c].path])
          /\ Finish(c, outputFile)
          /\ UNCHANGED outputFile
     ELSE /\ outputFile' = NoPath
          /\ Finish(c, calls[c].path)
          /\ UNCHANGED files
  /\ UNCHANGED <<process, segments, segmentIndex, backgroundTempFile,
                 foregroundTempFile, stderrLog, cachedEncoder, procs, clock,
                 onErrorCalls>>
  /\ UNCHANGED <<devVars, otherVars>>

\* after `await fs.promises.rename(seg, this.outputFile)` (lines 453-461);
\* the rename can succeed only if the segment file is there
StopRename(c, ok) ==
  /\ Ready /\ calls[c].pc = "st_rename"
  /\ IF ok
     THEN /\ Exists(calls[c].path)
          /\ files' = Put(Remove(files, {calls[c].path}), calls[c].out,
                          files[calls[c].path])
          /\ Finish(c, outputFile)
          /\ UNCHANGED outputFile
     ELSE /\ outputFile' = calls[c].path
          /\ Finish(c, calls[c].path)
          /\ UNCHANGED files
  /\ UNCHANGED <<process, segments, segmentIndex, backgroundTempFile,
                 foregroundTempFile, stderrLog, cachedEncoder, procs, clock,
                 onErrorCalls>>
  /\ UNCHANGED <<devVars, otherVars>>

\* mutant of StopClean: an unlink that finds no file makes stop() fail
StopCleanReportsMissing(c) ==
  /\ Ready /\ calls[c].pc = "st_clean"
  /\ files' = Remove(files, {backgroundTempFile, foregroundTempFile})
  /\ backgroundTempFile' = NoPath
  /\ foregroundTempFile' = NoPath
  /\ state' = "idle"
  /\ IF \A f \in {backgroundTempFile, foregroundTempFile} \ {NoPath} : Exists(f)
     THEN Return(c, [Ok("stop") EXCEPT !.path = outputFile])
     ELSE Return(c, Fail("stop", "unlink"))
  /\ UNCHANGED <<process, segments, segmentIndex, outputFile, stderrLog,
                 cachedEncoder, procs, clock, onErrorCalls>>
  /\ UNCHANGED <<devVars, otherVars>>

\* after the unlinks of the temp files (lines 465-475)
StopClean(c) ==
  /\ Ready /\ calls[c].pc = "st_clean"
  /\ files' = Remove(files, {backgroundTempFile, foregroundTempFile})
  /\ backgroundTempFile' = NoPath
  /\ foregroundTempFile' = NoPath
  /\ state' = "idle"
  /\ Return(c, [Ok("stop") EXCEPT !.path = outputFile])
  /\ UNCHANGED <<process, segments, segmentIndex, outputFile, stderrLog,
                 cachedEncoder, procs, clock, onErrorCalls>>
  /\ UNCHANGED <<devVars, otherVars>>

\* ---- files that vanish -----------------------------------------------------
\* another process removes a temp file, a segment file or the list file
FileGone(path) ==
  /\ Exists(path) /\ path.k \in {"bg", "fg", "seg", "list"}
  /\ files' = Remove(files, {path})
  /\ ret' = NoRet
  /\ UNCHANGED <<state, process, segments, segmentIndex, outputFile,
                 backgroundTempFile, foregroundTempFile, stderrLog, cachedEncoder,
                 procs, clock, calls, onErrorCalls, hist>>
  /\ UNCHANGED <<devVars, otherVars>>

\* the concat subprocess ends with code 0 (lines 756-765), having read every
\* listed segment and written the output; its 'close' event comes later
ConcatExit(c) ==
  /\ Ready /\ calls[c].pc = "st_concat"
  /\ \A i \in DOMAIN calls[c].list : Exists(calls[c].list[i])
  /\ Exists(calls[c].path)
  /\ files' = Put(files, calls[c].out,
                  Flatten([i \in DOMAIN calls[c].list |-> files[calls[c].list[i]]]))
  /\ Goto(c, [calls[c] EXCEPT !.pc = "st_exit0"])
  /\ UNCHANGED <<state, process, segments, segmentIndex, outputFile,
                 backgroundTempFile, foregroundTempFile, stderrLog, cachedEncoder,
                 procs, clock, onErrorCalls>>
  /\ UNCHANGED <<devVars, otherVars>>

\* 'close' with code 0 of a concat subprocess that had ended (lines 767-779,
\* 464-475): the segment files and the list file are unlinked, a failed
\* unlink being ignored, and stop() goes on to the temp files
ConcatCleanup(c) ==
  /\ Ready /\ calls[c].pc = "st_exit0"
  /\ files' = Remove(files, Range(segments) \cup {calls[c].path})
  /\ Finish(c, outputFile)
  /\ UNCHANGED <<process, segments, segmentIndex, outputFile, backgroundTempFile,
                 foregroundTempFile, stderrLog, cachedEncoder, procs, clock,
                 onErrorCalls>>
  /\ UNCHANGED <<devVars, otherVars>>

\* ---- specification ------------------------------------------------------
\* sessions without background / foreground data
CoreConfigs == {cfg \in Configs : /\ cfg.bg = "none" /\ cfg.mode = "screen"
                                  /\ cfg.cameraLabel = << >>
                                  /\ cfg.microphoneLabel = << >>
                                  /\ ~cfg.useFloatingCamera}

\* the steps that neither accept a call nor spawn a subprocess
Steps ==
  \/ \E c \in Slots, b \in BOOLEAN : StartMkdir(c, b)
  \/ \E c \in Slots, e \in SessionEncoders : SegEncoder(c, e)
  \/ \E p \in ProcIds : ProcWrite(p)
  \/ \E p \in ProcIds, t \in {"frame", "notfound", "other"} : ProcStderr(p, t)
  \/ \E p \in ProcIds : ProcError(p)
  \/ \E p \in ProcIds, code \in {0, 1} : ProcClose(p, code)
  \/ \E p \in ProcIds : ProcTimer(p)
  \/ \E c \in Slots : WaitTimer(c)
  \/ \E c \in Slots : PauseCont(c)
  \/ \E c \in Slots : StopCont(c)
  \/ \E c \in Slots, b \in BOOLEAN : StopList(c, b)
  \/ \E c \in Slots, code \in {0, 1} : ConcatClose(c, code)
  \/ \E c \in Slots, b \in BOOLEAN : StopRename(c, b)

\* a caller that awaits the result of each accepted call before the next
\* call that is accepted; calls that are rejected may come at any time
Serial == Cardinality({c \in Slots : InProgress(c)}) <= 1

Next ==
  \/ \E c \in Slots, cfg \in CoreConfigs : StartCall(c, cfg) /\ Serial'
  \/ \E c \in Slots, h \in {"q", "kill"} : PauseCall(c, h) /\ Serial'
  \/ \E c \in Slots : ResumeCall(c) /\ Serial'
  \/ \E c \in Slots, h \in {"q", "kill"} : StopCall(c, h) /\ Serial'
  \/ \E c \in Slots, o \in {"ok", "fail", "throw"} : Spawn(c, o)
  \/ Steps

Spec == Init /\ [][Next]_vars

\* callers that do not wait for each other (independent IPC requests), for
\* the first RaceSessions sessions and their first RaceProcs subprocesses
RaceProcs == 2
RaceSessions == 1
RaceBound == NumProcs + Cardinality(WillSpawn) <= RaceProcs /\ clock <= RaceSessions

NextRace ==
  \/ \E c \in Slots, cfg \in CoreConfigs : StartCall(c, cfg) /\ RaceBound'
  \/ \E c \in Slots, h \in {"q", "kill"} : PauseCall(c, h)
  \/ \E c \in Slots : ResumeCall(c) /\ RaceBound'
  \/ \E c \in Slots, h \in {"q", "kill"} : StopCall(c, h)
  \/ \E c \in Slots, o \in {"ok", "fail", "throw"} : Spawn(c, o)
  \/ Steps

SpecRace == Init /\ [][NextRace]_vars

\* start() with camera and microphone labels to resolve, by a caller that
\* awaits each call; sessions of one segment, stopped without a pause
DevProcs == 1
DeviceConfigs == {cfg \in Configs : /\ cfg.folder /\ cfg.bg = "none"
                                    /\ cfg.cameraLabel \in {<< >>, CamLabel, OtherName}
                                    /\ cfg.microphoneLabel \in {<< >>, MicName}}
DevBound ==
  NumProcs + Cardinality({c \in WillSpawn : calls[c].pc # "s_devices"}) <= DevProcs

NextDevices ==
  \/ \E c \in Slots, cfg \in DeviceConfigs : StartCall(c, cfg) /\ Serial' /\ DevBound'
  \/ \E l \in ListIds : ListError(l) /\ DevBound'
  \/ \E l \in ListIds, out \in Listings : ListClose(l, out) /\ DevBound'
  \/ \E l \in ListIds : ListTimer(l)
  \/ \E c \in Slots, b \in BOOLEAN : StartMkdir(c, b)
  \/ \E c \in Slots, e \in SessionEncoders : SegEncoder(c, e)
  \/ \E c \in Slots, o \in {"ok", "fail", "throw"} : Spawn(c, o)
  \/ \E p \in ProcIds : ProcWrite(p)
  \/ \E p \in ProcIds, t \in {"frame", "notfound", "other"} : ProcStderr(p, t)
  \/ \E p \in ProcIds : ProcError(p)
  \/ \E p \in ProcIds, code \in {0, 1} : ProcClose(p, code)
  \/ \E p \in ProcIds : ProcTimer(p)
  \/ \E c \in Slots, h \in {"q", "kill"} : StopCall(c, h) /\ Serial'
  \/ \E c \in Slots : WaitTimer(c)
  \/ \E c \in Slots : StopCont(c)
  \/ \E c \in Slots, b \in BOOLEAN : StopRename(c, b)

SpecDevices == Init /\ [][NextDevices]_vars

\* matchDshowDevice applied to a label and a catalog.  start() passes labels
\* that are not empty (lines 230-233, 238, 251); the names of a catalog are
\* what the parser's "\s*(.+?)\s*" captures: not empty, no blank at either end
MaxLabel == 2
MaxCatalog == 2
MatchChars == {"a", "A", "b", " ", "-"}
LogiLabel == <<"L", "o", "g", "i", " ", "W", "e", "b", "c", "a", "m", Reg>>
LogiName ==
  <<"L", "o", "g", "i", " ", "W", "e", "b", "c", "a", "m", " ", "(", "R", ")">>
MatchLabels ==
  (UNION {[1..n -> MatchChars] : n \in 1..MaxLabel}) \cup {CamLabel, LogiLabel}
MatchNames ==
  {t \in UNION {[1..n -> MatchChars] : n \in 1..MaxLabel} :
     t[1] \notin SpaceChars /\ t[Len(t)] \notin SpaceChars}
    \cup {CamName, LogiName}
MatchCatalogs == UNION {[1..n -> MatchNames] : n \in 0..MaxCatalog}

InitMatch ==
  /\ InitRecorder
  /\ browserLabel \in MatchLabels
  /\ dshowDevices \in MatchCatalogs
  /\ matchResult = << >>
  /\ build = NoBuild
  /\ args = << >>
  /\ post = NoPost

\* this.matchDshowDevice(browserLabel, dshowDevices) (lines 239, 252)
Match ==
  /\ matchResult = << >>
  /\ matchResult' = <<matchDshowDevice(browserLabel, dshowDevices)>>
  /\ UNCHANGED <<state, process, segments, segmentIndex, outputFile,
                 backgroundTempFile, foregroundTempFile, stderrLog, cachedEncoder,
                 procs, files, clock, calls, ret, onErrorCalls, hist,
                 devVars, encVars, browserLabel, dshowDevices, buildVars, post>>

NextMatch == Match

SpecMatch == InitMatch /\ [][NextMatch]_vars

\* detectEncoder() called at startup and through 'ffmpeg-detect-encoder',
\* the calls not waiting for each other
NextDetect ==
  \/ \E d \in DetectIds : DetectCall(d)
  \/ \E d \in DetectIds, end \in TrialEnds : TrialEnd(d, end)

SpecDetect == Init /\ [][NextDetect]_vars

\* sessions with a background image, and possibly a foreground image, kept
\* in temp files (lines 281-308, 463-472), by a caller that awaits each call
TempProcs == 2
TempSessions == 1
TempConfigs == {cfg \in Configs : /\ cfg.folder /\ cfg.bg # "none" /\ cfg.mode = "screen"
                                  /\ cfg.cameraLabel = << >>
                                  /\ cfg.microphoneLabel = << >>
                                  /\ ~cfg.useFloatingCamera}
TempBound == NumProcs + Cardinality(WillSpawn) <= TempProcs /\ clock <= TempSessions

NextTemp ==
  \/ \E c \in Slots, cfg \in TempConfigs : StartCall(c, cfg) /\ Serial' /\ TempBound'
  \/ \E c \in Slots, b \in BOOLEAN : StartBg(c, b)
  \/ \E c \in Slots, b \in BOOLEAN : StartFg(c, b)
  \/ \E c \in Slots, h \in {"q", "kill"} : PauseCall(c, h) /\ Serial'
  \/ \E c \in Slots : ResumeCall(c) /\ Serial' /\ TempBound'
  \/ \E c \in Slots, h \in {"q", "kill"} : StopCall(c, h) /\ Serial'
  \/ \E c \in Slots, o \in {"ok", "fail", "throw"} : Spawn(c, o)
  \/ \E c \in Slots : StopClean(c)
  \/ Steps

SpecTemp == Init /\ [][NextTemp]_vars

\* the sessions of SpecTemp while other processes remove files, the end of
\* the concat subprocess and its 'close' event being two steps
NextGone ==
  \/ NextTemp
  \/ \E path \in DOMAIN files : FileGone(path)
  \/ \E c \in Slots : ConcatExit(c)
  \/ \E c \in Slots : ConcatCleanup(c)

SpecGone == Init /\ [][NextGone]_vars

\* start() requests that do not wait for each other, and the events of the
\* segments they start
StartsBound == NumProcs + Cardinality(WillSpawn) <= RaceProcs /\ clock <= MaxSessions

NextStarts ==
  \/ \E c \in Slots, cfg \in CoreConfigs : StartCall(c, cfg) /\ StartsBound'
  \/ \E c \in Slots, b \in BOOLEAN : StartMkdir(c, b)
  \/ \E c \in Slots, e \in SessionEncoders : SegEncoder(c, e)
  \/ \E c \in Slots, o \in {"ok", "fail", "throw"} : Spawn(c, o)
  \/ \E p \in ProcIds : ProcWrite(p)
  \/ \E p \in ProcIds, t \in {"frame", "notfound", "other"} : ProcStderr(p, t)
  \/ \E p \in ProcIds : ProcError(p)
  \/ \E p \in ProcIds, code \in {0, 1} : ProcClose(p, code)
  \/ \E p \in ProcIds : ProcTimer(p)

SpecStarts == Init /\ [][NextStarts]_vars

\* ---- buildArgs applied ----------------------------------------------------
\* startSegment builds the command of the segment (line 317)
Build ==
  /\ build # NoBuild /\ args = << >>
  /\ args' = buildArgs(build.config, build.outputPath, build.encoder,
                       build.backgroundTempFile)
  /\ UNCHANGED <<sessionVars, cachedEncoder, devVars, encVars, matchVars, build, post>>

\* ---- postProcessCamera() ---------------------------------------------------
\* what no step of postProcessCamera touches
postFrame ==
  <<state, process, segments, segmentIndex, outputFile, backgroundTempFile,
    foregroundTempFile, stderrLog, procs, clock, calls, onErrorCalls, hist,
    devVars, encVars, matchVars, buildVars>>

PostSuccess(path) == [Ok("post") EXCEPT !.path = path]

\* resolve(r) of the promise of the overlay pass: the first call decides
PostResolve(pp, r) ==
  IF pp.result = NoRet THEN [pp EXCEPT !.result = r, !.pc = "done"] ELSE pp

\* lines 854-941: the command is built and the overlay subprocess is
\* spawned, with its 5-minute timer.  "ok": the subprocess runs; "fail": it
\* could not be launched and an 'error' event follows; "throw": spawn threw
PostSpawn(pp, outcome) ==
  LET argv == postArgs(pp.config, pp.actualScreenPath, pp.encoder)
  IN IF outcome = "throw"
     THEN PostResolve([pp EXCEPT !.argv = argv], Fail("post", "exception"))
     ELSE [pp EXCEPT !.argv = argv, !.pc = "run", !.timer = TRUE,
                     !.proc = IF outcome = "ok" THEN "running" ELSE "failed"]

\* postProcessCamera(config) is called and awaits detectEncoder() (line 839)
PostCall ==
  /\ post.pc = "idle" /\ post.config # NoPostConfig
  /\ post' = [post EXCEPT !.pc = "enc"]
  /\ ret' = NoRet
  /\ UNCHANGED <<files, cachedEncoder, postFrame>>

\* detectEncoder() returns (lines 839-845): with input and output the same
\* file the rename is awaited, otherwise the overlay pass begins
PostEncoder(enc, outcome) ==
  /\ post.pc = "enc"
  /\ cachedEncoder \in {"none", enc}
  /\ cachedEncoder' = enc
  /\ LET cfg == post.config
     IN post' = IF cfg.screenPath = cfg.outputPath
                THEN [post EXCEPT !.pc = "rename", !.encoder = enc,
                                  !.actualScreenPath = screenTempPath(cfg.screenPath)]
                ELSE PostSpawn([post EXCEPT !.encoder = enc,
                                            !.actualScreenPath = cfg.screenPath],
                               outcome)
  /\ ret' = post'.result
  /\ UNCHANGED <<files, postFrame>>

\* fs.promises.rename settles (lines 846-851): a failure is returned, after
\* a success the overlay pass begins
PostRename(ok, outcome) ==
  /\ post.pc = "rename"
  /\ IF ok /\ Exists(post.config.screenPath)
     THEN /\ files' = Put(Remove(files, {post.config.screenPath}),
                          post.actualScreenPath, files[post.config.screenPath])
          /\ post' = PostSpawn(post, outcome)
     ELSE /\ post' = PostResolve(post, Fail("post", "rename"))
          /\ UNCHANGED files
  /\ ret' = post'.result
  /\ UNCHANGED <<cachedEncoder, postFrame>>

\* the overlay subprocess opens its output: -y overwrites what is there
PostWrite ==
  /\ post.proc = "running"
  /\ Exists(post.actualScreenPath) /\ Exists(post.config.cameraPath)
  /\ files' = Put(files, post.config.outputPath, << >>)
  /\ ret' = NoRet
  /\ UNCHANGED <<post, cachedEncoder, postFrame>>

\* the overlay subprocess ends by itself: with code 0 it has written the
\* whole output; its 'close' event is delivered later
PostExit(code) ==
  /\ post.proc = "running"
  /\ IF code = 0
     THEN /\ Exists(post.actualScreenPath) /\ Exists(post.config.cameraPath)
          /\ files' = Put(files, post.config.outputPath,
                          files[post.actualScreenPath] \o files[post.config.cameraPath])
          /\ post' = [post EXCEPT !.proc = "exit0"]
     ELSE /\ post' = [post EXCEPT !.proc = "exit1"]
          /\ UNCHANGED files
  /\ ret' = NoRet
  /\ UNCHANGED <<cachedEncoder, postFrame>>

\* 'error' of a subprocess that could not be launched (lines 932-934)
PostError ==
  /\ post.proc = "failed"
  /\ post' = PostResolve([post EXCEPT !.proc = "errored"], Fail("post", "spawn"))
  /\ ret' = IF post.result = NoRet THEN post'.result ELSE NoRet
  /\ UNCHANGED <<files, cachedEncoder, postFrame>>

\* 'close' (lines 918-930): after code 0 both inputs are unlinked, a failed
\* unlink being ignored, and success is resolved; otherwise failure
PostClose ==
  /\ post.proc \in {"exit0", "exit1", "errored", "killed"}
  /\ IF post.proc = "exit0"
     THEN /\ files' = Remove(files, {post.actualScreenPath, post.config.cameraPath})
          /\ post' = PostResolve([post EXCEPT !.proc = "closed"],
                                 PostSuccess(post.config.outputPath))
     ELSE /\ post' = PostResolve([post EXCEPT !.proc = "closed"], Fail("post", "exit"))
          /\ UNCHANGED files
  /\ ret' = IF post.result = NoRet THEN post'.result ELSE NoRet
  /\ UNCHANGED <<cachedEncoder, postFrame>>

\* the 5-minute timer, which nothing clears, fires (lines 936-939): kill
\* ends a subprocess that is still running, and failure is resolved
PostTimer ==
  /\ post.timer
  /\ post' = PostResolve([post EXCEPT !.timer = FALSE,
                                      !.proc = IF @ = "running" THEN "killed" ELSE @],
                         Fail("post", "timeout"))
  /\ ret' = IF post.result = NoRet THEN post'.result ELSE NoRet
  /\ UNCHANGED <<files, cachedEncoder, postFrame>>

\* buildArgs applied to the configurations of every mode, capture source,
\* camera, microphone, resolution, background and encoder
BgFile == Path("bg", 1, 0)
ContentArea == Area(160, 90, 1600, 900)
Captures == {[source |-> NoSource, region |-> NoArea],
             [source |-> ScreenSource, region |-> NoArea],
             [source |-> ScreenSource, region |-> Area(1920, 0, 1920, 1080)],
             [source |-> WindowSource, region |-> NoArea]}
\* the background of a session: the temp file written or not, the content
\* area and the output size given or not
BgSetups == {[file |-> NoPath, area |-> NoArea, size |-> NoSize],
             [file |-> NoPath, area |-> ContentArea, size |-> Size(1920, 1080)],
             [file |-> BgFile, area |-> NoArea, size |-> NoSize],
             [file |-> BgFile, area |-> ContentArea, size |-> NoSize],
             [file |-> BgFile, area |-> ContentArea, size |-> Size(1920, 1080)]}
BuildInputs ==
  {[config |-> BuildConfig(m, cap.source, cap.region, cam, mic, fl, res, sh,
                           bg.area, bg.size, 200, [x |-> 1000, y |-> 500],
                           Size(1280, 720)),
    outputPath |-> Path("seg", 1, 0), encoder |-> enc,
    backgroundTempFile |-> bg.file] :
     m \in Modes, cap \in Captures, cam \in {<< >>, CamName}, mic \in {<< >>, MicName},
     fl \in BOOLEAN, res \in Resolutions, sh \in Shapes, bg \in BgSetups,
     enc \in Encoders}

InitBuild ==
  /\ InitRecorder
  /\ browserLabel = << >>
  /\ dshowDevices = << >>
  /\ matchResult = << >>
  /\ build \in BuildInputs
  /\ args = << >>
  /\ post = NoPost

NextBuild == Build

SpecBuild == InitBuild /\ [][NextBuild]_vars

\* postProcessCamera() applied to a finished screen recording and a camera
\* clip, next to buildArgs applied to a session with the inline camera
\* overlay and the same camera settings
ScreenFile == Path("out", 1, 0)
CameraFile == Path("cam", 1, 0)
PostFiles == Put(Put(<< >>, ScreenFile, <<Path("seg", 1, 0)>>), CameraFile, <<CameraFile>>)
CameraSizes == {150, 201}
CameraPositions == {[x |-> 0, y |-> 0], [x |-> 333, y |-> 147]}
PreviewSizes == {Size(640, 360), Size(800, 500)}
OutputSizes == {Size(1280, 720), Size(1920, 1080), Size(1600, 1000)}
OverlaySetups == {[file |-> NoPath, area |-> NoArea, size |-> NoSize],
                  [file |-> BgFile, area |-> Area(100, 50, 1400, 900),
                   size |-> Size(1600, 1000)]}
PostInputs ==
  {[build |-> [config |-> BuildConfig("screen-camera", NoSource, NoArea, CamName, << >>,
                                      FALSE, res, sh, bg.area, bg.size, cs, cp, pv),
               outputPath |-> Path("seg", 1, 0), encoder |-> "libx264",
               backgroundTempFile |-> bg.file],
    post |-> PostConfig(ScreenFile, CameraFile, out, cs, cp, sh, os, pv)] :
     res \in {"source", "720p", "1080p"}, sh \in Shapes, bg \in OverlaySetups,
     cs \in CameraSizes, cp \in CameraPositions, pv \in PreviewSizes,
     out \in {ScreenFile, Path("post", 1, 0)}, os \in OutputSizes}

InitPost ==
  /\ InitFields
  /\ files = PostFiles
  /\ browserLabel = << >>
  /\ dshowDevices = << >>
  /\ matchResult = << >>
  /\ args = << >>
  /\ \E in \in PostInputs : /\ build = in.build
                            /\ post = [NoPost EXCEPT !.config = in.post]

NextPost ==
  \/ Build
  \/ PostCall
  \/ \E enc \in Encoders, o \in {"ok", "fail", "throw"} : PostEncoder(enc, o)
  \/ \E ok \in BOOLEAN, o \in {"ok", "fail", "throw"} : PostRename(ok, o)
  \/ PostWrite
  \/ \E code \in {0, 1} : PostExit(code)
  \/ PostError
  \/ PostClose
  \/ PostTimer

SpecPost == InitPost /\ [][NextPost]_vars

\* ---- auxiliary definitions of the properties ------------------------------
Last(h) == h[Len(h)]
Front(h) == SubSeq(h, 1, Len(h) - 1)
\* h is start followed by whole pause/resume cycles
IsCycles(h) == /\ Len(h) >= 1 /\ Len(h) % 2 = 1 /\ h[1] = "start"
               /\ \A i \in 2..Len(h) : h[i] = IF i % 2 = 0 THEN "pause" ELSE "resume"
Cycles(h) == (Len(h) - 1) \div 2
\* the files that carry the timestamp of the current session
SessionFiles(kind) == {q \in DOMAIN files : q.k = kind /\ q.s = clock}
Alive == {p \in ProcIds : procs[p].status = "running"}
StopReturned(h) == ret.op = "stop" /\ ret.ok /\ hist = h

\* ---- C1 -----------------------------------------------------------------
\* C1: a start() while the state is not idle, a pause() while it is not
\* recording, a resume() while it is not paused and a stop() while it is
\* neither recording nor paused return a failure in the same step and leave
\* state, segments, segmentIndex, process, outputFile and the files
\* unchanged (and no call is left in progress).
C1_RejectedCallsChangeNothing ==
  [][ ( \/ (state # "idle" /\ \E c \in Slots, cfg \in CoreConfigs : StartCall(c, cfg))
        \/ (state # "recording" /\ \E c \in Slots, h \in {"q", "kill"} : PauseCall(c, h))
        \/ (state # "paused" /\ \E c \in Slots : ResumeCall(c))
        \/ (state \notin {"recording", "paused"}
              /\ \E c \in Slots, h \in {"q", "kill"} : StopCall(c, h)) )
      => /\ ret'.op # "none" /\ ~ret'.ok
         /\ calls' = calls
         /\ UNCHANGED <<state, segments, segmentIndex, process, outputFile, files>>
    ]_vars

\* a resume() has just been rejected while a segment was being recorded
C1_Witness ==
  /\ ret = Fail("resume", "state")
  /\ state = "recording" /\ process # 0 /\ segments # << >>

\* ---- C2 -----------------------------------------------------------------
\* C2: while an accepted call is in progress every other call is rejected,
\* so at most one public operation is in progress at any time.
C2_CallsSerialized == Cardinality({c \in Slots : InProgress(c)}) <= 1

\* ---- C3 -----------------------------------------------------------------
\* C3: at most one recording subprocess spawned by the controller is alive.
C3_AtMostOneAlive == Cardinality(Alive) <= 1

\* ---- C4 -----------------------------------------------------------------
\* C4: a segment subprocess is spawned only after the exit of every
\* subprocess spawned before it has been observed.
C4_SpawnAfterExitSeen ==
  [][ \A p \in ProcIds :
        (procs[p].status = "none" /\ procs'[p].status # "none")
          => \A q \in ProcIds : q < p => procs[q].status = "closed" ]_vars

\* ---- C5 -----------------------------------------------------------------
ClaimedTransitions ==
  {<<"idle", "recording">>, <<"recording", "paused">>, <<"paused", "recording">>,
   <<"recording", "stopping">>, <<"paused", "stopping">>, <<"stopping", "idle">>}

\* C5 as claimed: the state changes only along idle->recording,
\* recording->paused, paused->recording, recording->stopping,
\* paused->stopping and stopping->idle.
C5_OnlyClaimedTransitions ==
  [][state' # state => <<state, state'>> \in ClaimedTransitions]_vars

\* C5 as amended: besides the six transitions the state also changes
\* recording->idle (a subprocess exits while recording), paused->idle (the
\* segment of a resume() fails to start) and stopping->recording (a segment
\* start is confirmed while stop() is in progress); it never changes
\* idle->paused, idle->stopping or stopping->paused.
C5_Transitions ==
  [][state' # state => <<state, state'>> \in ClaimedTransitions \cup
        {<<"recording", "idle">>, <<"paused", "idle">>, <<"stopping", "recording">>}]_vars

\* a stop() is in progress and the state has gone back to recording
C5_Witness == state = "recording" /\ \E c \in Slots : calls[c].op = "stop"

\* ---- C6 -----------------------------------------------------------------
\* the session's canonical output is on disk and none of its segments is
C6_OneOutputNoSegment ==
  /\ SessionFiles("out") = {Path("out", clock, 0)}
  /\ SessionFiles("seg") = {}

\* C6, first half: when stop() is accepted after start and k pause/resume
\* cycles, the segment list has k+1 entries.
C6_SegmentCount ==
  \A c \in Slots : (calls[c].op = "stop" /\ IsCycles(hist))
                      => Len(segments) = Cycles(hist) + 1

\* C6 as claimed: ... and after the successful stop() exactly one final
\* output file exists and no segment file remains.
C6_CyclesThenStop ==
  /\ C6_SegmentCount
  /\ (ret.op = "stop" /\ ret.ok /\ Len(hist) > 1 /\ IsCycles(Front(hist)))
        => C6_OneOutputNoSegment

\* C6 as amended: ... after the successful stop() exactly one final output
\* file exists and no segment file remains, except when k = 0 and the rename
\* fails: then stop() returns the segment path itself, nothing is moved and
\* no file is at the canonical output path.
C6_CyclesThenStopAmended ==
  /\ C6_SegmentCount
  /\ (ret.op = "stop" /\ ret.ok /\ Len(hist) > 1 /\ IsCycles(Front(hist)))
        => IF Cycles(Front(hist)) >= 1 \/ ret.path.k = "out"
           THEN C6_OneOutputNoSegment
           ELSE /\ ret.path = segments[1] /\ outputFile = segments[1]
                /\ SessionFiles("out") = {}

\* start, pause, resume, pause, resume, stop has just returned success
C6_Witness ==
  /\ StopReturned(<<"start", "pause", "resume", "pause", "resume", "stop">>)
  /\ Len(segments) = 3

\* ---- C7 -----------------------------------------------------------------
\* C7: within one session the segment index never decreases, the segment
\* list only grows by appends, and its entries are pairwise distinct.
C7_SegmentsAppendOnly ==
  [][clock' = clock =>
       /\ segmentIndex' >= segmentIndex
       /\ Len(segments') >= Len(segments)
       /\ SubSeq(segments', 1, Len(segments)) = segments
       /\ \A i, j \in DOMAIN segments' : i # j => segments'[i] # segments'[j]
    ]_vars

\* ---- C8 -----------------------------------------------------------------
\* start then stop has just returned the canonical path: the rename succeeded
C8_RenamedStop == StopReturned(<<"start", "stop">>) /\ ret.path.k = "out"

\* what C8 says of the files: stop() returned the output path fixed at
\* start and the recording that was at the segment path is now there
C8_Moved ==
  /\ ret.path = Path("out", clock, 0) /\ outputFile = ret.path
  /\ ~Exists(Path("seg", clock, 0))
  /\ Exists(ret.path)
  /\ files[ret.path] = <<Path("seg", clock, 0)>>

\* C8 as claimed: ... and the segment list is empty.
C8_SingleSegmentStop == C8_RenamedStop => (C8_Moved /\ segments = << >>)

\* C8 as amended: ... and the segment list still holds the path of that one
\* segment (it is emptied by the next start(), not by stop()).
C8_SingleSegmentStopAmended ==
  C8_RenamedStop => (C8_Moved /\ segments = <<Path("seg", clock, 0)>>)

\* start then stop has just returned the canonical path and the state is idle
C8_Witness == C8_RenamedStop /\ state = "idle"

\* ---- C9 -----------------------------------------------------------------
\* C9: after start, pause, resume, a stop() whose concatenation exits with
\* code 0 returns success; both segment files and the list file are gone and
\* exactly one output file of the session exists, at the canonical path,
\* holding the two recordings in recording order.
C9_TwoSegmentsConcat ==
  StopReturned(<<"start", "pause", "resume", "stop">>) =>
    /\ ret.path = Path("out", clock, 0) /\ outputFile = ret.path
    /\ segments = <<Path("seg", clock, 0), Path("seg", clock, 1)>>
    /\ \A i \in DOMAIN segments : ~Exists(segments[i])
    /\ ~Exists(listPath)
    /\ SessionFiles("seg") = {} /\ SessionFiles("out") = {outputFile}
    /\ files[outputFile] = segments

\* start, pause, resume, stop has just returned success
C9_Witness == StopReturned(<<"start", "pause", "resume", "stop">>) /\ state = "idle"

Unmatched(label, devs) ==
  \A i \in DOMAIN devs :
     /\ devs[i] # label
     /\ normalize(devs[i]) # normalize(label)
     /\ ~includes(normalize(devs[i]), normalize(label))
     /\ ~includes(normalize(label), normalize(devs[i]))

\* what C11 says of the step in which the start(cfg) in slot c receives the
\* catalog devs
FailsOnUnmatched(c, cfg, devs) ==
  LET camBad == needsCamera(cfg) /\ Unmatched(cfg.cameraLabel, devs.video)
      micBad == needsMic(cfg) /\ Unmatched(cfg.microphoneLabel, devs.audio)
  IN (camBad \/ micBad)
     => /\ ret'.op = "start" /\ ~ret'.ok /\ calls'[c] = NoCall
        /\ ret'.kind = IF camBad THEN "camera" ELSE "microphone"
        /\ ret'.listed = IF camBad THEN devs.video ELSE devs.audio
        /\ state = "idle" /\ state' = "idle"
        /\ procs' = procs /\ process' = process
        /\ segments' = segments /\ segmentIndex' = segmentIndex

\* C11: when the start() of a configuration whose needed camera label, or
\* needed microphone label, matches no entry of the catalog it receives (from
\* the listing it awaits, or from the cache in the step of the call), it
\* returns a failure that enumerates the whole catalog of that kind (video
\* for the camera, which is looked at first, audio for the microphone); the
\* state is idle, no subprocess is spawned and the segment list is unchanged.
C11_UnmatchedLabelFails ==
  [][ /\ \A c \in Slots :
           calls[c].pc = "s_devices" =>
             \A devs \in Listings :
                (\/ ListClose(calls[c].proc, devs)
                 \/ devs = NoListing /\ ListError(calls[c].proc))
                => FailsOnUnmatched(c, calls[c].cfg, devs)
      /\ (state = "idle" /\ cachedDshowDevices.cached /\ lists' = lists) =>
           \A c \in Slots, cfg \in DeviceConfigs :
              StartCall(c, cfg)
              => FailsOnUnmatched(c, cfg, [video |-> cachedDshowDevices.video,
                                           audio |-> cachedDshowDevices.audio])
    ]_vars

\* a start() has just failed on its camera label, with the catalog entries
\* enumerated, after an earlier session had left its segment registered
C11_Witness ==
  /\ ret.op = "start" /\ ret.kind = "camera" /\ ret.listed = <<CamName>>
  /\ state = "idle" /\ segments # << >>

\* ---- C12 ----------------------------------------------------------------
\* C12: matchDshowDevice for the label "Logi Webcam" followed by the
\* registered sign, against a catalog that contains "Logi Webcam (R)", yields
\* that entry.
C12_GlyphLabelMatches ==
  (/\ matchResult # << >> /\ browserLabel = LogiLabel
   /\ \E i \in DOMAIN dshowDevices : dshowDevices[i] = LogiName)
  => matchResult[1] = [found |-> TRUE, name |-> LogiName]

\* ---- C13 ----------------------------------------------------------------
\* the first entry of devs that satisfies P
FirstEntry(devs, P(_)) ==
  devs[CHOOSE i \in DOMAIN devs : P(devs[i]) /\ \A j \in DOMAIN devs : j < i => ~P(devs[j])]

IsExact(d) == d = browserLabel
IsNormalized(d) == normalize(d) = normalize(browserLabel)
IsSubstring(d) ==
  \/ includes(normalize(d), normalize(browserLabel))
  \/ includes(normalize(browserLabel), normalize(d))
Some(P(_)) == \E i \in DOMAIN dshowDevices : P(dshowDevices[i])

\* C13: the result of matchDshowDevice is the first entry equal to the label
\* if there is one; otherwise the first entry whose normalized form equals
\* the normalized label; otherwise the first entry whose normalized form
\* contains, or is contained in, the normalized label; otherwise null.
C13_TiersInOrder ==
  matchResult # << >> =>
    matchResult[1] =
      IF Some(IsExact)
      THEN [found |-> TRUE, name |-> FirstEntry(dshowDevices, IsExact)]
      ELSE IF Some(IsNormalized)
      THEN [found |-> TRUE, name |-> FirstEntry(dshowDevices, IsNormalized)]
      ELSE IF Some(IsSubstring)
      THEN [found |-> TRUE, name |-> FirstEntry(dshowDevices, IsSubstring)]
      ELSE Null

\* the second entry was returned by normalized equality although the first
\* entry, which is not equal after normalization, contains the label
C13_Witness ==
  /\ matchResult # << >> /\ Len(dshowDevices) = 2
  /\ matchResult[1] = [found |-> TRUE, name |-> dshowDevices[2]]
  /\ dshowDevices[2] # browserLabel /\ IsNormalized(dshowDevices[2])
  /\ IsSubstring(dshowDevices[1]) /\ ~IsNormalized(dshowDevices[1])

\* ---- C14 ----------------------------------------------------------------
\* C14: of the detectEncoder() calls made, at most one spawns trials, and all
\* those that have returned have returned the same encoder.
C14_OneTrialSequence ==
  /\ Cardinality({d \in DetectIds : detects[d].cand > 0}) <= 1
  /\ \A d, e \in DetectIds :
        (detects[d].pc = "done" /\ detects[e].pc = "done")
        => detects[d].result = detects[e].result

\* ---- C15 ----------------------------------------------------------------
\* C15: a detectEncoder() call that runs trials runs them in the order
\* h264_nvenc, h264_amf, h264_qsv, one after the other ended without exit
\* code 0; when it has returned, its result is the candidate whose trial
\* exited with code 0, the last one it tried, or libx264 after all three
\* trials ended otherwise (exit code not 0, 'error', timeout); the result is
\* always an encoder.
C15_FirstWorkingCandidate ==
  \A d \in DetectIds :
     LET n == detects[d].cand
         log == detects[d].log
     IN /\ n > 0 =>
             /\ n <= Len(candidates)
             /\ \E f \in [1..n -> 1..Len(trials)] :
                   /\ \A i \in 1..n : trials[f[i]] = candidates[i]
                   /\ \A i \in 1..(n - 1) : f[i] < f[i + 1]
             /\ \A i \in 1..(n - 1) : log[i] # "exit0"
             /\ Len(log) = IF detects[d].pc = "done" THEN n ELSE n - 1
        /\ (detects[d].pc = "done" /\ n > 0) =>
             detects[d].result = IF log[n] = "exit0" THEN candidates[n]
                                 ELSE "libx264"
        /\ (detects[d].pc = "done" /\ n > 0 /\ log[n] # "exit0") => n = Len(candidates)
        /\ detects[d].pc = "done" => detects[d].result \in Encoders

\* a call has returned h264_amf after the trial of h264_nvenc was killed by
\* its timeout
C15_Witness ==
  \E d \in DetectIds :
     /\ detects[d].pc = "done" /\ detects[d].result = "h264_amf"
     /\ detects[d].log = <<"timeout", "exit0">>

\* ---- C16 ----------------------------------------------------------------
\* C16: the catalog is cached only by a listing that was launched: after a
\* listing that could not be launched, and before any that could has ended,
\* the cache is unset (so that the next call lists again).
C16_FailedListingNotCached ==
  cachedDshowDevices.cached =>
    \E l \in ListIds : lists[l].status = "closed" /\ ~lists[l].failed

\* ---- C17 ----------------------------------------------------------------
\* C17: when a subprocess whose start was confirmed, and to which neither
\* pause() nor stop() has sent a quit or a kill, exits, with whatever code,
\* the error callback is invoked for it in that step, for the first time.
C17_UnrequestedExitCallsBack ==
  [][ \A p \in ProcIds, code \in {0, 1} :
        (procs[p].resolved /\ procs[p].sig = "none" /\ ProcClose(p, code))
        => (p \notin onErrorCalls /\ onErrorCalls' = onErrorCalls \cup {p})
    ]_vars

\* ---- C18 ----------------------------------------------------------------
\* C18: the error callback is invoked only for the subprocess of the
\* recording in progress exiting without a quit or a kill having been sent to
\* it: never for an exit that pause() or stop() brought about, never for a
\* segment whose failure to start start() or resume() returned.
C18_CallbackOnlyForCrash ==
  [][ \A p \in ProcIds :
        (p \in onErrorCalls' /\ p \notin onErrorCalls)
        => (state = "recording" /\ process = p /\ procs[p].sig = "none")
    ]_vars

\* ---- C19 ----------------------------------------------------------------
\* C19: when a stop() that was accepted returns, with success or with the
\* concatenation failure, the state is idle, the handle is null, no
\* background or foreground temp file is on disk and both temp paths are
\* cleared.
C19_StopLeavesNothingBehind ==
  [][ \A c \in Slots :
        (calls[c].op = "stop" /\ calls'[c].op # "stop")
        => /\ ret'.op = "stop"
           /\ state' = "idle" /\ process' = 0
           /\ backgroundTempFile' = NoPath /\ foregroundTempFile' = NoPath
           /\ \A f \in DOMAIN files' : f.k \notin {"bg", "fg"}
    ]_vars

\* ---- C20 ----------------------------------------------------------------
\* C20: a pause() that is accepted sends the quit request to the subprocess
\* (a kill if the request cannot be written) and sets the state to paused;
\* while it waits, the segment list and the segment index stay as they were;
\* it returns success only once the subprocess has exited or has been killed,
\* and at its return the state is paused, the handle is null, the segment
\* index is one more than before and the segment list is unchanged.
C20_PauseContract ==
  [][ \A c \in Slots :
        /\ (calls[c].op # "pause" /\ calls'[c].op = "pause")
           => /\ state' = "paused"
              /\ calls'[c].proc = process /\ process # 0
              /\ procs[process].status = "running"
                   => procs'[process].sig \in {"quit", "kill"}
              /\ segments' = segments /\ segmentIndex' = segmentIndex
        /\ (calls[c].op = "pause" /\ calls'[c].op = "pause")
           => (segments' = segments /\ segmentIndex' = segmentIndex)
        /\ (calls[c].op = "pause" /\ calls'[c].op # "pause")
           => /\ ret' = Ok("pause")
              /\ \/ procs[calls[c].proc].status # "running"
                 \/ procs[calls[c].proc].sig = "kill"
              /\ state' = "paused" /\ process' = 0
              /\ segmentIndex' = segmentIndex + 1
              /\ segments' = segments
    ]_vars

\* ---- C21 ----------------------------------------------------------------
\* C21: the start of the segment of subprocess p is decided as a success, with
\* the state set to recording, in exactly two kinds of step: p, still
\* running and undecided, prints a frame marker; or the 5-second timer of p
\* fires while p is running and undecided and no "Could not find" is in the
\* log.  When the timer fires with "Could not find" in the log, p is killed,
\* the not-found failure is returned and the state is idle.
C21_StartConfirmation ==
  [][ \A p \in ProcIds :
        LET undecided == procs[p].status = "running" /\ ~procs[p].resolved
            success == /\ ~procs[p].resolved /\ procs'[p].resolved
                       /\ ret'.ok /\ ret'.op \in {"start", "resume"}
            byFrame == undecided /\ ProcStderr(p, "frame")
            byTimer == undecided /\ ProcTimer(p) /\ "notfound" \notin stderrLog
        IN /\ success <=> (byFrame \/ byTimer)
           /\ success => state' = "recording"
           /\ (undecided /\ ProcTimer(p) /\ "notfound" \in stderrLog)
              => /\ procs'[p].sig = "kill"
                 /\ ret' = Fail(calls[Awaiter(p)].op, "notfound")
                 /\ state' = "idle"
    ]_vars

\* ---- C22 ----------------------------------------------------------------
\* C22: whenever the state is recording, paused or stopping, the segment list
\* is not empty.
C22_SegmentsEmptyOnlyIdle ==
  state \in {"recording", "paused", "stopping"} => segments # << >>

\* ---- C23 ----------------------------------------------------------------
\* C23: the handle is non-null only while the state is recording or stopping,
\* or while a pause() is in progress (or, the state not yet being set, while
\* the start of a segment is being awaited); in particular it is null when
\* the state is idle, or paused, and no call is in progress.
C23_HandleOnlyWhileLive ==
  process # 0 =>
    \/ state \in {"recording", "stopping"}
    \/ \E c \in Slots : calls[c].op = "pause"
    \/ \E c \in Slots : calls[c].pc = "seg_wait"

\* ---- C24 ----------------------------------------------------------------
\* C24: the output path changes only in two kinds of step: a start() that has
\* passed its checks assigns the path of the new session; a stop() whose
\* rename of the single segment fails makes it the path of that segment.
\* No other step (pause, resume, segment start, subprocess
\* event, rejected call) changes it.
C24_OutputFileFixedAtStart ==
  [][ outputFile' # outputFile
      => \/ \E c \in Slots : /\ calls'[c].op = "start" /\ calls'[c].pc = "s_mkdir"
                             /\ calls[c].pc \in {"idle", "s_devices"}
                             /\ outputFile' = Path("out", clock', 0)
         \/ \E c \in Slots : /\ calls[c].op = "stop" /\ calls[c].pc = "st_rename"
                             /\ Len(segments) = 1 /\ outputFile' = segments[1]
                             /\ outputFile'.k = "seg"
    ]_vars

\* a stop() has returned the segment path after its rename failed
C24_Witness ==
  /\ ret.op = "stop" /\ ret.ok /\ ret.path = outputFile
  /\ outputFile.k = "seg" /\ segments = <<outputFile>> /\ state = "idle"

\* ---- C25 ----------------------------------------------------------------
\* a text occurs in an argument
Contains(text, sub) ==
  \E i \in 0..(Len(text) - Len(sub)) : SubSeq(text, i + 1, i + Len(sub)) = sub
\* buildArgs has returned
Built == build # NoBuild /\ args # << >>
\* the chain that normalizes the audio timestamps, resamples with async
\* correction and pads with silence, with and without the 1-second advance
AdvancedChain ==
  <<"asetpts=PTS-STARTPTS", "+1/TB", ",", "aresample=async=1000", ",", "apad">>
PlainChain == <<"asetpts=PTS-STARTPTS", ",", "aresample=async=1000", ",", "apad">>
\* the command is that of the camera-only branch
CameraOnly == build.config.mode = "camera" /\ hasCamera(build.config)

\* C25 as stated: every command with a microphone input has the audio chain
\* that advances the timestamps by one second, resamples and pads.
C25_AdvanceInEveryBranch ==
  Built /\ hasMic(build.config) => \E i \in DOMAIN args : Contains(args[i], AdvancedChain)

\* C25: every command with a microphone input has exactly one audio chain,
\* which normalizes the timestamps, resamples with async correction and pads
\* with silence; it advances the timestamps by one second in every branch
\* but the camera-only one, where nothing is advanced.
C25_AudioChain ==
  Built /\ hasMic(build.config) =>
    /\ Cardinality({i \in DOMAIN args : Contains(args[i], <<"aresample=async=1000", ",", "apad">>)}) = 1
    /\ IF CameraOnly
       THEN /\ \E i \in DOMAIN args : args[i] = PlainChain /\ args[i - 1] = <<"-af">>
            /\ \A i \in DOMAIN args : ~Contains(args[i], <<"+1/TB">>)
       ELSE \E i \in DOMAIN args : Contains(args[i], AdvancedChain)

\* a camera-only command with a microphone has been built
C25_Witness ==
  /\ Built /\ hasMic(build.config) /\ CameraOnly
  /\ \E i \in DOMAIN args : args[i] = PlainChain

\* ---- C26 ----------------------------------------------------------------
\* where a text occurs in the arguments: <<argument, position>>
Occurrences(argv, sub) ==
  {<<i, j>> \in UNION {{i} \X (1..Len(argv[i])) : i \in DOMAIN argv} :
     /\ j + Len(sub) - 1 <= Len(argv[i])
     /\ SubSeq(argv[i], j, j + Len(sub) - 1) = sub}
\* the aspect-preserving scale+pad stage for a resolution
ScalePadStage(res) ==
  <<"scale=", ToString(res.w), ":", ToString(res.h),
    ":force_original_aspect_ratio=decrease", ",",
    "pad=", ToString(res.w), ":", ToString(res.h), ":(ow-iw)/2:(oh-ih)/2">>
\* no background is active and a resolution other than source is asked for
ScalingAsked ==
  /\ ~(build.backgroundTempFile # NoPath /\ build.config.backgroundContentArea.set)
  /\ build.config.outputResolution # "source"

\* C26: whenever no background is active and the output resolution is not
\* source, the command has exactly one scale+pad stage for the target
\* resolution, and the stage directly follows the timestamp normalization of
\* the video chain it is in, which is kept.
C26_OneScaleStage ==
  Built /\ ScalingAsked =>
    LET occ == Occurrences(args, ScalePadStage(getResolution(build.config.outputResolution)))
    IN /\ Cardinality(occ) = 1
       /\ \A o \in occ : /\ o[2] > 2
                         /\ args[o[1]][o[2] - 1] = ","
                         /\ args[o[1]][o[2] - 2] \in {"setpts=PTS-STARTPTS", "hflip"}

\* ---- C27 ----------------------------------------------------------------
\* the overlay pass has failed: a non-zero exit, a spawn error or the timeout
OverlayFailed ==
  /\ post.result.op = "post" /\ ~post.result.ok
  /\ post.result.kind \in {"exit", "spawn", "timeout"}
\* the screen recording as it was before the call
ScreenIntact ==
  /\ post.config.screenPath \in DOMAIN files
  /\ files[post.config.screenPath] = <<Path("seg", 1, 0)>>

\* C27: once the overlay pass has failed, the screen recording is still at
\* screenPath with its original content, whether or not outputPath is the
\* same file.
C27_FailureKeepsScreenRecording == OverlayFailed => ScreenIntact

\* ---- C28 ----------------------------------------------------------------
\* the 'close' event of an overlay pass that exited with code 0 is handled
ClosesWithZero == post.proc = "exit0" /\ post'.proc = "closed"

\* C28: when the overlay pass has exited with code 0, the call returns
\* success with outputPath, the screen input that was read and the camera
\* clip are gone, and the file at outputPath is there.
C28_SuccessCleansInputs ==
  [][ ClosesWithZero =>
        /\ post'.result.ok /\ post'.result.path = post.config.outputPath
        /\ post.actualScreenPath \notin DOMAIN files'
        /\ post.config.cameraPath \notin DOMAIN files'
        /\ post.config.outputPath \in DOMAIN files'
    ]_vars

\* ---- C29 ----------------------------------------------------------------
\* the filter graph of a command
FilterOf(argv) ==
  argv[(CHOOSE i \in DOMAIN argv : argv[i] = <<"-filter_complex">>) + 1]
\* the piece that follows the first occurrence of a piece in a text
After(text, piece, n) == text[(CHOOSE j \in DOMAIN text : text[j] = piece) + n]
\* what a filter graph says of the camera overlay: the side of the scaled
\* square, the radius of the circle mask ("" when there is none) and the
\* offsets of the overlay that yields [out]
OverlayGeometry(text) ==
  LET o == CHOOSE j \in DOMAIN text :
             text[j] = "overlay=" /\ j + 4 <= Len(text) /\ text[j + 4] = "[out]"
      masked == \E j \in DOMAIN text : text[j] = "a='if(lte(pow(X-"
  IN [width |-> After(text, "crop='min(iw,ih)':'min(iw,ih)'", 3),
      height |-> After(text, "crop='min(iw,ih)':'min(iw,ih)'", 5),
      radius |-> IF masked THEN After(text, "a='if(lte(pow(X-", 1) ELSE "",
      radiusY |-> IF masked THEN After(text, "a='if(lte(pow(X-", 3) ELSE "",
      radiusR |-> IF masked THEN After(text, "a='if(lte(pow(X-", 5) ELSE "",
      x |-> text[o + 1], y |-> text[o + 3]]
\* the output size the inline overlay is built for
InlineTarget ==
  IF /\ build.backgroundTempFile # NoPath /\ build.config.backgroundContentArea.set
     /\ build.config.backgroundOutputSize.set
  THEN build.config.backgroundOutputSize
  ELSE IF build.config.outputResolution = "720p" THEN Size(1280, 720)
  ELSE Size(1920, 1080)
\* both commands are built, from the same camera settings, preview size and
\* target output size
SameOverlayInputs ==
  /\ Built /\ post.argv # << >>
  /\ build.config.cameraSize = post.config.cameraSize
  /\ build.config.cameraPosition = post.config.cameraPosition
  /\ build.config.cameraShape = post.config.cameraShape
  /\ build.config.previewWidth = post.config.previewWidth
  /\ build.config.previewHeight = post.config.previewHeight
  /\ InlineTarget = Size(post.config.outputWidth, post.config.outputHeight)

\* C29: built from the same camera size, position and shape, preview size
\* and target output size, the inline overlay and the overlay pass have the
\* same side length, the same circle radius and the same x and y offsets.
C29_SameOverlayGeometry ==
  SameOverlayInputs =>
    OverlayGeometry(FilterOf(args)) = OverlayGeometry(FilterOf(post.argv))

\* both are built for a circle whose offsets scale differently along x and y
C29_Witness ==
  /\ SameOverlayInputs
  /\ post.config.cameraShape = "circle"
  /\ post.config.cameraPosition.x > 0
  /\ post.config.outputWidth * post.config.previewHeight
       # post.config.outputHeight * post.config.previewWidth
  /\ OverlayGeometry(FilterOf(post.argv)).radius # ""

\* ---- C30 ----------------------------------------------------------------
\* C30: the step of stop() that unlinks the segment files and the list file
\* goes on, and the step that unlinks the temp files returns success with
\* the output path and leaves the recorder idle with no temp file recorded,
\* whether the files to unlink are there or not.
C30_MissingFilesIgnored ==
  [][ \A c \in Slots :
        /\ (calls[c].pc = "st_clean" /\ calls'[c].pc # "st_clean")
             => /\ state' = "idle"
                /\ ret' = [Ok("stop") EXCEPT !.path = outputFile]
                /\ backgroundTempFile' = NoPath /\ foregroundTempFile' = NoPath
                /\ calls'[c] = NoCall
        /\ (calls[c].pc = "st_exit0" /\ calls'[c].pc # "st_exit0")
             => IF backgroundTempFile # NoPath \/ foregroundTempFile # NoPath
                THEN calls'[c].pc = "st_clean" /\ state' = "stopping"
                ELSE /\ state' = "idle"
                     /\ ret' = [Ok("stop") EXCEPT !.path = outputFile]
                     /\ calls'[c] = NoCall
    ]_vars

\* stop() is about to unlink its background temp file, which is gone
C30_Witness ==
  \E c \in Slots : /\ calls[c].pc = "st_clean"
                   /\ backgroundTempFile # NoPath
                   /\ backgroundTempFile \notin DOMAIN files

\* ---- C31 ----------------------------------------------------------------
\* where the -i arguments are
InputPositions == {i \in DOMAIN args : args[i] = <<"-i">>}
\* the number of -i arguments before position i
Ordinal(i) == Cardinality({j \in InputPositions : j < i})
\* what the -i argument at position i opens
InputKind(i) ==
  LET v == args[i + 1]
  IN IF v[1] = "video=" THEN "camera"
     ELSE IF v[1] = "audio=" THEN "mic"
     ELSE IF v[1] = "bg" THEN "bg"
     ELSE "screen"
\* the index the builder assigned to each kind of input, -1 if absent
AssignedIdx(kind) ==
  IF kind = "bg" THEN bgInputIdx(build.config, build.backgroundTempFile)
  ELSE IF kind = "screen" THEN screenInputIdx(build.config, build.backgroundTempFile)
  ELSE IF kind = "camera" THEN cameraInputIdx(build.config, build.backgroundTempFile)
  ELSE micInputIdx(build.config, build.backgroundTempFile)
InputKinds == {"bg", "screen", "camera", "mic"}
KindRank(kind) ==
  IF kind = "bg" THEN 0 ELSE IF kind = "screen" THEN 1
  ELSE IF kind = "camera" THEN 2 ELSE 3
\* the stream references of the command, <<index, ":v" or ":a">>: [n:v] and
\* [n:a] in a filter graph, n:v and n:a after -map
StreamRefs ==
  {<<args[o[1]][o[2] + 1], IF args[o[1]][o[2] + 2] = ":v]" THEN ":v" ELSE ":a">> :
     o \in {o \in UNION {{i} \X (1..Len(args[i])) : i \in DOMAIN args} :
              /\ args[o[1]][o[2]] = "["
              /\ o[2] + 2 <= Len(args[o[1]])
              /\ args[o[1]][o[2] + 2] \in {":v]", ":a]"}}}
  \cup {<<args[i][1], args[i][2]>> :
          i \in {i \in DOMAIN args : /\ i > 1 /\ args[i - 1] = <<"-map">>
                                     /\ Len(args[i]) = 2
                                     /\ args[i][2] \in {":v", ":a"}}}

\* C31: the inputs come in the order background, screen, camera, microphone,
\* each kind at most once; the index assigned to an input that is present is
\* the number of -i arguments before its own, and an absent input has none;
\* every stream reference of the filter graph and of -map names the index
\* assigned to a present input, video from a video input and audio from the
\* microphone.
C31_InputIndices ==
  Built =>
    /\ \A i, j \in InputPositions :
         i < j => KindRank(InputKind(i)) < KindRank(InputKind(j))
    /\ \A i \in InputPositions : AssignedIdx(InputKind(i)) = Ordinal(i)
    /\ \A k \in InputKinds :
         (\A i \in InputPositions : InputKind(i) # k) => AssignedIdx(k) = -1
    /\ \A ref \in StreamRefs :
         \E i \in InputPositions :
           /\ ref[1] = ToString(Ordinal(i))
           /\ IF ref[2] = ":a" THEN InputKind(i) = "mic" ELSE InputKind(i) # "mic"

\* a command with all four inputs, the camera and the microphone referenced
C31_Witness ==
  /\ Built
  /\ Cardinality(InputPositions) = 4
  /\ <<"2", ":v">> \in StreamRefs /\ <<"3", ":a">> \in StreamRefs

\* ---- C32: stop() comes to an end ----------------------------------------
\* what the event loop of the recorder is bound to run once it is due: the
\* 5-second timer of waitForExit() (lines 804-808), the continuations of
\* stop() after its awaits (lines 440-456) and the file-system calls it awaits
\* (writeFile line 753, rename line 452, unlink lines 465-471).  Nothing is
\* assumed of the recording subprocess nor of the concat subprocess, whose
\* 'close' and 'error' events (lines 767-772) have no timer behind them.
StopFairness ==
  \A c \in Slots :
    /\ WF_vars(WaitTimer(c))
    /\ WF_vars(StopCont(c))
    /\ WF_vars(\E b \in BOOLEAN : StopList(c, b))
    /\ WF_vars(\E b \in BOOLEAN : StopRename(c, b))
    /\ WF_vars(StopClean(c))

SpecStop == Init /\ [][NextTemp]_vars /\ StopFairness

\* C32: every accepted stop() eventually returns and the state eventually
\* becomes idle again, whatever the recording subprocess and the concat
\* subprocess do
C32_StopTerminates ==
  /\ \A c \in Slots : (calls[c].op = "stop") ~> (calls[c].op # "stop")
  /\ (state = "stopping") ~> (state = "idle")

\* ---- C33: one result per segment start ----------------------------------
\* C33: a start() or resume() waiting on the promise of startSegment() for
\* subprocess p is waiting on an undecided start; the step that decides it
\* is the first of frame marker, spawn error, exit and 5-second timer to run,
\* it delivers the result of that event to the caller, and the timer, when
\* it fires on an undecided start, always decides; an event of a subprocess
\* whose start is decided delivers no result and leaves the record of the
\* successful calls alone
C33_OneResultPerSegment ==
  [][ /\ \A c \in Slots :
           calls[c].pc = "seg_wait" =>
             LET p == calls[c].proc
                 op == calls[c].op
                 delivered == /\ calls'[c] = NoCall
                              /\ ret'.op = op /\ ret'.kind # "none"
             IN /\ ~procs[p].resolved
                /\ procs[p].status \in {"running", "failed"}
                /\ procs'[p].resolved <=> delivered
                /\ ProcTimer(p) => delivered
                /\ delivered =>
                     \/ /\ \E t \in {"frame", "notfound", "other"} : ProcStderr(p, t)
                        /\ ret' = Ok(op)
                     \/ ProcError(p) /\ ret' = Fail(op, "spawn")
                     \/ /\ \E code \in {0, 1} : ProcClose(p, code)
                        /\ ret' \in {Fail(op, "exit"), Fail(op, "notfound")}
                     \/ ProcTimer(p) /\ ret' \in {Ok(op), Fail(op, "notfound")}
      /\ \A p \in ProcIds :
           (procs[p].status # "none" /\ procs[p].resolved) =>
             /\ ~ProcTimer(p)
             /\ (\/ \E t \in {"frame", "notfound", "other"} : ProcStderr(p, t)
                 \/ ProcError(p)
                 \/ \E code \in {0, 1} : ProcClose(p, code))
                => (ret' = NoRet /\ hist' = hist)
    ]_vars

\* a start confirmed, with the exit of its subprocess (a later event of the
\* same segment) having gone by without a second result
C33_Witness ==
  /\ hist = <<"start">> /\ ret = NoRet
  /\ procs[1].status = "closed" /\ state = "idle" /\ onErrorCalls = {1}

\* ---- C34: the exit of an earlier segment's subprocess -------------------
\* C34: when the subprocess of an earlier segment exits after a later
\* segment has been spawned, its 'close' handler leaves the recorder state
\* as it is and does not invoke the error callback
C34_StaleExitIgnored ==
  [][ \A p \in ProcIds :
        (/\ process # 0 /\ p < process
         /\ procs[process].status = "running"
         /\ \E code \in {0, 1} : ProcClose(p, code))
        => (state' = state /\ onErrorCalls' = onErrorCalls)
    ]_vars

\* ---- C35: a resume() that fails to start --------------------------------
\* C35: when resume() returns a failure of its new segment (spawn error,
\* exception, early exit, not-found at the timer), the recorder is in a state
\* in which stop() is accepted, so that the segments recorded before the
\* pause can still be finalized
C35_FailedResumeKeepsSession ==
  (/\ ret.op = "resume" /\ ~ret.ok
   /\ ret.kind \in {"spawn", "exception", "exit", "notfound"})
  => state \in {"recording", "paused"}

\* ---- overlapping calls within one session --------------------------------
\* callers that do not wait for each other, one session of up to MaxProcs
\* segments whose subprocesses start, print their progress and exit when
\* asked to, every file-system call succeeding
OverlapBound == NumProcs + Cardinality(WillSpawn) <= MaxProcs /\ clock <= 1

NextOverlap ==
  \/ \E c \in Slots, cfg \in CoreConfigs : StartCall(c, cfg) /\ OverlapBound'
  \/ \E c \in Slots : StartMkdir(c, TRUE)
  \/ \E c \in Slots, e \in SessionEncoders : SegEncoder(c, e)
  \/ \E c \in Slots : Spawn(c, "ok")
  \/ \E p \in ProcIds : ProcWrite(p)
  \/ \E p \in ProcIds : ProcStderr(p, "frame")
  \/ \E p \in ProcIds, code \in {0, 1} : ProcClose(p, code)
  \/ \E c \in Slots : PauseCall(c, "q")
  \/ \E c \in Slots : PauseCont(c)
  \/ \E c \in Slots : ResumeCall(c) /\ OverlapBound'
  \/ \E c \in Slots : StopCall(c, "q")
  \/ \E c \in Slots : StopCont(c)
  \/ \E c \in Slots : StopList(c, TRUE)
  \/ \E c \in Slots, code \in {0, 1} : ConcatClose(c, code)
  \/ \E c \in Slots : StopRename(c, TRUE)

SpecOverlap == Init /\ [][NextOverlap]_vars

\* ---- C36: when a segment file is deleted --------------------------------
\* the recorder's own moves of a segment file: the single segment renamed to
\* the output path (lines 449-456) keeps its content under the new name
Renamed(q) ==
  \E c \in Slots : /\ calls[c].pc = "st_rename" /\ calls[c].path = q
                   /\ calls[c].out \in DOMAIN files'
                   /\ files'[calls[c].out] = files[q]

\* C36: a segment file disappears only in the step in which a concat
\* subprocess whose list included it has exited with code 0 (the rename of
\* a single segment to the output path is a move, not a deletion); no other
\* step of start, pause, resume, stop or of a subprocess removes one
C36_SegmentsDeletedOnlyAfterConcat ==
  [][ \A q \in DOMAIN files :
        (q.k = "seg" /\ q \notin DOMAIN files' /\ ~Renamed(q))
        => \E c \in Slots : /\ calls[c].pc = "st_concat"
                            /\ q \in Range(calls[c].list)
                            /\ ConcatClose(c, 0)
    ]_vars

\* ---- start(): from the labels of the request to the command -------------
\* mutant of StartLabels: the matched names are not written into the config
StartLabelsKeepsLabel ==
  /\ build # NoBuild /\ build.encoder = "none" /\ ret = NoRet
  /\ LET cfg == build.config
         devs == cachedDshowDevices
     IN IF needsCamera(cfg) /\ ~Truthy(matchDshowDevice(cfg.cameraLabel, devs.video))
        THEN /\ ret' = [Fail("start", "camera") EXCEPT !.listed = devs.video]
             /\ UNCHANGED build
        ELSE IF needsMic(cfg) /\ ~Truthy(matchDshowDevice(cfg.microphoneLabel, devs.audio))
        THEN /\ ret' = [Fail("start", "microphone") EXCEPT !.listed = devs.audio]
             /\ UNCHANGED build
        ELSE /\ build' = [build EXCEPT !.outputPath = Path("seg", 1, 0),
                                       !.encoder = "libx264"]
             /\ UNCHANGED ret
  /\ UNCHANGED <<state, process, segments, segmentIndex, outputFile,
                 backgroundTempFile, foregroundTempFile, stderrLog, cachedEncoder,
                 procs, files, clock, calls, onErrorCalls, hist>>
  /\ UNCHANGED <<devVars, encVars, matchVars, args, post>>

\* start() from the device validation to the buildArgs call of its first
\* segment (lines 228-263, 311-317), with the catalog that listDshowDevices()
\* has cached: a label that is needed is replaced in the config by the
\* catalog name it matches, or the call ends with a failure; the segment
\* path and the encoder are those of a first segment with libx264
StartLabels ==
  /\ build # NoBuild /\ build.encoder = "none" /\ ret = NoRet
  /\ LET cfg == build.config
         devs == cachedDshowDevices
         cam == matchDshowDevice(cfg.cameraLabel, devs.video)
         mic == matchDshowDevice(cfg.microphoneLabel, devs.audio)
     IN IF needsCamera(cfg) /\ ~Truthy(cam)
        THEN /\ ret' = [Fail("start", "camera") EXCEPT !.listed = devs.video]
             /\ UNCHANGED build
        ELSE IF needsMic(cfg) /\ ~Truthy(mic)
        THEN /\ ret' = [Fail("start", "microphone") EXCEPT !.listed = devs.audio]
             /\ UNCHANGED build
        ELSE /\ build' = [build EXCEPT
                            !.config.cameraLabel =
                               IF needsCamera(cfg) THEN cam.name ELSE @,
                            !.config.microphoneLabel =
                               IF needsMic(cfg) THEN mic.name ELSE @,
                            !.outputPath = Path("seg", 1, 0),
                            !.encoder = "libx264"]
             /\ UNCHANGED ret
  /\ UNCHANGED <<state, process, segments, segmentIndex, outputFile,
                 backgroundTempFile, foregroundTempFile, stderrLog, cachedEncoder,
                 procs, files, clock, calls, onErrorCalls, hist>>
  /\ UNCHANGED <<devVars, encVars, matchVars, args, post>>

\* the requests explored: every mode, browser labels that match a catalog
\* name, another name or none, with and without the floating camera
LabelInputs ==
  {[config |-> BuildConfig(m, ScreenSource, NoArea, cam, mic, fl, "source", "circle",
                           NoArea, NoSize, 200, [x |-> 1000, y |-> 500],
                           Size(1280, 720)),
    outputPath |-> NoPath, encoder |-> "none", backgroundTempFile |-> NoPath] :
     m \in Modes, cam \in {<< >>, CamLabel, OtherName},
     mic \in {<< >>, MicName, OtherName}, fl \in BOOLEAN}

\* a recorder whose device catalog is cached, and a request
InitLabels ==
  /\ state = "idle" /\ process = 0 /\ segments = << >> /\ segmentIndex = 0
  /\ outputFile = NoPath /\ backgroundTempFile = NoPath /\ foregroundTempFile = NoPath
  /\ stderrLog = {} /\ cachedEncoder = "none"
  /\ procs = [p \in ProcIds |-> NoProc] /\ files = << >> /\ clock = 0
  /\ calls = [c \in Slots |-> NoCall] /\ ret = NoRet /\ onErrorCalls = {}
  /\ hist = << >>
  /\ cachedDshowDevices \in {Cached(l) : l \in Listings}
  /\ lists = [l \in ListIds |-> NoList]
  /\ detects = [d \in DetectIds |-> NoDetect] /\ trials = << >>
  /\ browserLabel = << >> /\ dshowDevices = << >> /\ matchResult = << >>
  /\ build \in LabelInputs
  /\ args = << >>
  /\ post = NoPost

NextLabels ==
  \/ StartLabels
  \/ Build /\ build.encoder # "none"

SpecLabels == InitLabels /\ [][NextLabels]_vars

\* ---- C37: device names come from the catalog ----------------------------
DeviceArgs(argv, prefix) == {i \in DOMAIN argv : argv[i][1] = prefix}

\* C37: when start() goes on to its segment, a label it needed is now a name
\* of the catalog and a label it did not need opens no input; in the command
\* built, every video=/audio= name is an entry of the catalog, a camera or
\* microphone input is there exactly when the label was needed and resolved,
\* and with the floating camera there is no camera input and no camera
\* validation
C37_DeviceNamesFromCatalog ==
  [][ /\ (build.encoder = "none" /\ build'.encoder # "none") =>
           /\ hasCamera(build'.config) <=> needsCamera(build.config)
           /\ needsCamera(build.config) =>
                build'.config.cameraLabel \in Range(cachedDshowDevices.video)
           /\ hasMic(build'.config) <=> needsMic(build.config)
           /\ needsMic(build.config) =>
                build'.config.microphoneLabel \in Range(cachedDshowDevices.audio)
      /\ (args = << >> /\ args' # << >>) =>
           /\ \A i \in DeviceArgs(args', "video=") :
                /\ Tail(args'[i]) \in Range(cachedDshowDevices.video)
                /\ i > 1 /\ args'[i - 1] = <<"-i">>
           /\ \A i \in DeviceArgs(args', "audio=") :
                /\ Tail(args'[i]) \in Range(cachedDshowDevices.audio)
                /\ i > 1 /\ args'[i - 1] = <<"-i">>
           /\ Cardinality(DeviceArgs(args', "video=")) =
                (IF needsCamera(build.config) THEN 1 ELSE 0)
           /\ Cardinality(DeviceArgs(args', "audio=")) =
                (IF needsMic(build.config) THEN 1 ELSE 0)
           /\ build.config.useFloatingCamera => DeviceArgs(args', "video=") = {}
      /\ (ret = NoRet /\ ret'.kind = "camera") =>
           (needsCamera(build.config) /\ ~build.config.useFloatingCamera)
    ]_vars

\* a command with the camera and the microphone of the catalog, the camera
\* label of the request having been replaced by its catalog name
C37_Witness ==
  /\ args # << >>
  /\ build.config.cameraLabel = CamName /\ ~build.config.useFloatingCamera
  /\ <<"video=">> \o CamName \in Range(args)
  /\ <<"audio=">> \o MicName \in Range(args)

\* ---- C38: one video stream in every command -----------------------------
\* the -map arguments that select a video stream: an input's n:v, or the
\* video label of the filter graph ([out], [bg_out])
VideoMaps ==
  {i \in DOMAIN args :
     /\ i > 1 /\ args[i - 1] = <<"-map">>
     /\ \/ Len(args[i]) = 2 /\ args[i][2] = ":v"
        \/ args[i] \in {<<"[out]">>, <<"[", "out", "]">>, <<"[", "bg_out", "]">>}}

\* C38: the command built for a configuration that start() has accepted
\* opens at least one video input (background image, screen or camera) and
\* maps exactly one video stream to the output
C38_OneVideoStream ==
  (build # NoBuild /\ args # << >>) =>
    /\ \E i \in InputPositions : InputKind(i) # "mic"
    /\ Cardinality(VideoMaps) = 1

\* ---- C39: a start() begins a fresh session ------------------------------
\* C39: in the step in which an accepted start() registers its first
\* segment, the segment list becomes exactly that one path, of this session,
\* and the segment index is 0; the list a stop() concatenates, and the files
\* it then unlinks, are segment paths of the session whose output it writes
C39_FreshSession ==
  [][ /\ \A c \in Slots :
           (calls[c].op = "start" /\ Len(segments') = Len(segments) + 1)
           => /\ segments' = <<Path("seg", outputFile.s, 0)>>
              /\ segmentIndex' = 0
      /\ \A c \in Slots :
           calls'[c].pc = "st_concat"
           => /\ \A i \in DOMAIN calls'[c].list : calls'[c].list[i].s = calls'[c].out.s
              /\ \A q \in Range(segments') : q.s = calls'[c].out.s
    ]_vars

============================================================================
